---------------------------- MODULE Spec2Model ----------------------------
(***************************************************************************)
(* A model of the AI-Engineer recursive tool-call loop                     *)
(* (src/AI_engineer/api_client.py), its transcript                         *)
(* (src/AI_engineer/conversation.py) and the file tools it drives          *)
(* (src/AI_engineer/file_operations.py).                                   *)
(*                                                                         *)
(* Python strings whose characters the code inspects (file contents,       *)
(* snippets, message contents, tool names) are sequences of one-character *)
(* strings.  Strings the code only concatenates or compares as a whole     *)
(* (call ids, raw argument text, paths) are TLA+ strings.                  *)
(***************************************************************************)
EXTENDS Integers, Sequences, FiniteSets, TLC

VARIABLES
    conversation_history,            \* conversation.py: the global transcript
    files,                           \* the file system: resolved path -> content
    pc,                              \* where the program is
    max_iterations,                  \* parameter of the loop
    iteration,                       \* local of the loop
    consecutive_trivial_iterations,  \* local of the loop
    reasoning_content,               \* per-request accumulator
    final_content,                   \* per-request accumulator
    tool_calls,                      \* per-request accumulator (slots by index)
    formatted_tool_calls,            \* the calls kept at stream end
    exec_index,                      \* position of the for loop over the batch
    outcome,                         \* what stream_openai_response returned
    console,                         \* status lines printed during the run
    supports_reasoning,              \* config.supports_reasoning()
    clock,                           \* int(time.time() * 1000)
    stream,                          \* chunks of the response consumed so far
    run_log,                         \* history variable: events of the current run
    turns,                           \* history variable: user turns so far
    edit_args,                       \* arguments of the edit under test
    files_before,                    \* history variable: files before the edit
    history_before,                  \* history variable: transcript before the
                                     \* user message was appended
    agent,                           \* PydanticMCPManager.agent
    _initialized,                    \* PydanticMCPManager._initialized
    mcp_servers,                     \* PydanticMCPManager.mcp_servers
    server_names,                    \* PydanticMCPManager.server_names
    _lock,                           \* PydanticMCPManager._lock: the thread holding it
    thread_pc,                       \* where the main and the watcher thread are
    config,                          \* content of mcp.config.json
    mcp_count                        \* history variable: queries and reloads so far

vars == << conversation_history, files, pc, max_iterations, iteration,
           consecutive_trivial_iterations, reasoning_content, final_content,
           tool_calls, formatted_tool_calls, exec_index, outcome, console,
           supports_reasoning, clock, stream, run_log, turns, edit_args,
           files_before, history_before, agent, _initialized, mcp_servers,
           server_names, _lock, thread_pc, config, mcp_count >>

mcpVars == << agent, _initialized, mcp_servers, server_names, _lock, thread_pc,
              config, mcp_count >>

\* mcp.config.json: the names of its enabled servers, or a text that is not JSON
Config(valid, enabled) == [valid |-> valid, enabled |-> enabled]

\* The manager after init_pydantic_mcp(): the agent is built from a
\* configuration with one server and the watcher is started; both threads
\* are idle
ManagerAtStart ==
    /\ agent = "Agent"
    /\ _initialized = TRUE
    /\ mcp_servers = << "context7" >>
    /\ server_names = << "context7" >>
    /\ _lock = ""
    /\ thread_pc = [main |-> "idle", watcher |-> "idle"]
    /\ config = Config(TRUE, << "context7" >>)
    /\ mcp_count = [queries |-> 0, reloads |-> 0]

----------------------------------------------------------------------------
(* Bounds of the model *)

\* longest file content drawn for the edit check
MaxContentLen == 3
\* longest snippet drawn for the edit check
MaxSnippetLen == 2
\* largest iteration cap (max_iterations) a session is run with
MaxCap == 4
\* model requests the endpoint serves in one session
MaxRequests == 6
\* user messages in one session
MaxTurns == 2
\* /add commands in one session
MaxAdds == 1
\* chunks of one streamed response in StreamSpec
MaxChunks == 3

----------------------------------------------------------------------------
(* Python string operations, on sequences of characters *)

Whitespace == {" ", "\n", "\t"}

\* s[i:].startswith(sub), i counted from 1
StartsWithAt(s, sub, i) ==
    /\ i + Len(sub) - 1 <= Len(s)
    /\ \A k \in 1..Len(sub) : s[i + k - 1] = sub[k]

RECURSIVE CountFrom(_, _, _)
\* str.count: the number of NON-OVERLAPPING occurrences, scanning left to
\* right; the empty string is counted len(s) + 1 times.
CountFrom(s, sub, i) ==
    IF Len(sub) = 0 THEN Len(s) - i + 2
    ELSE IF i + Len(sub) - 1 > Len(s) THEN 0
    ELSE IF StartsWithAt(s, sub, i) THEN 1 + CountFrom(s, sub, i + Len(sub))
    ELSE CountFrom(s, sub, i + 1)

PyCount(s, sub) == CountFrom(s, sub, 1)

\* str.find, counted from 1; 0 when absent
PyFind(s, sub) ==
    IF \E i \in 1..(Len(s) + 1) : StartsWithAt(s, sub, i)
    THEN CHOOSE i \in 1..(Len(s) + 1) :
            /\ StartsWithAt(s, sub, i)
            /\ \A j \in 1..(i - 1) : ~StartsWithAt(s, sub, j)
    ELSE 0

\* `sub in s`
PyContains(s, sub) == PyFind(s, sub) # 0

\* s.replace(old, new, 1)
PyReplaceFirst(s, old, new) ==
    LET i == PyFind(s, old) IN
    IF i = 0 THEN s
    ELSE SubSeq(s, 1, i - 1) \o new \o SubSeq(s, i + Len(old), Len(s))

RECURSIVE PyStrip(_)
\* s.strip()
PyStrip(s) ==
    IF Len(s) = 0 THEN s
    ELSE IF s[1] \in Whitespace THEN PyStrip(Tail(s))
    ELSE IF s[Len(s)] \in Whitespace THEN PyStrip(SubSeq(s, 1, Len(s) - 1))
    ELSE s

\* ''.join(s.split())
PyRemoveWhitespace(s) == SelectSeq(s, LAMBDA c : c \notin Whitespace)

\* all sequences over S of length at most n
SeqsUpTo(S, n) == UNION { [1..k -> S] : k \in 0..n }

----------------------------------------------------------------------------
(* The file system and file_operations.py *)

\* The characters file contents and snippets are drawn from.
FileChars == {"a", "b"}

\* Paths as the tools receive them.  "~/a.txt" is a relative path whose first
\* part is a directory literally named "~".
Paths == {"a.txt", "~/a.txt"}

\* normalize_path: Path(path_str).resolve(), the absolute path under the
\* working directory.  (The ".." test after resolve() never fires.)
normalize_path(path_str) == "/cwd/" \o path_str

\* any(part.startswith('~') for part in Path(path).parts)
HasTildePart(path) == path \in {"~/a.txt", "/cwd/~/a.txt"}

\* The path of a Python source file, which has a linter (flake8)
LintedPaths == {"a.py"}

\* A second text file, named in the lists of read_multiple_files
OtherPaths == {"b.txt"}

\* open(path): a relative and a resolved path name the same file
FileKey(path) ==
    IF path \in Paths \cup LintedPaths \cup OtherPaths THEN normalize_path(path) ELSE path

FileExists(fs, path) == FileKey(path) \in DOMAIN fs

\* is_supported_file / is_python_file: the extension is that of a source file
is_supported_file(file_path) ==
    file_path \in LintedPaths \cup { normalize_path(p) : p \in LintedPaths }

\* What one run of the linter's subprocess does: it ends with an output, or
\* subprocess.run raises (flake8 is not installed, the run times out)
LinterRuns ==
    { [raised |-> "", stdout |-> << >>],
      [raised |-> "", stdout |-> << "\n" >>],
      [raised |-> "", stdout |-> << "E302" >>],
      [raised |-> "FileNotFoundError", stdout |-> << >>],
      [raised |-> "TimeoutExpired", stdout |-> << >>] }

\* The runs of the linter during one tool call: read_file runs it twice
LinterPairs == [first : LinterRuns, second : LinterRuns]

\* The linter of a call that runs none
NoLinterRun ==
    [first  |-> [raised |-> "", stdout |-> << >>],
     second |-> [raised |-> "", stdout |-> << >>]]

\* run_flake8 without its try/except: what subprocess.run raises goes up
run_flake8_NoCatch(file_path, run) ==
    [raised |-> run.raised, value |-> PyStrip(run.stdout)]

\* run_flake8: [raised, value]; every exception becomes a diagnostic text
run_flake8(file_path, run) ==
    IF run.raised # ""
    THEN [raised |-> "",
          value |-> << "[Linter Error] Could not check file ", file_path, ": ", run.raised >>]
    ELSE [raised |-> "", value |-> PyStrip(run.stdout)]

\* run_linter_auto: [raised, value]; a file without a linter (extension
\* .txt) reaches the last line, which returns ""
run_linter_auto(file_path, run) ==
    IF is_supported_file(file_path) THEN run_flake8(file_path, run)
    ELSE [raised |-> "", value |-> << >>]

\* A byte that is not UTF-8 text (a file that holds one is a binary file)
Undecodable == "\\xff"

\* The exceptions of the model that are instances of OSError
IsOSError(e) == e \in {"FileNotFoundError", "PermissionError", "IsADirectoryError"}

\* read_local_file without diagnostics: [raised, value]; open() raises for a
\* missing file, f.read() for a file that is not UTF-8 text
read_local_file(fs, file_path) ==
    IF ~FileExists(fs, file_path)
    THEN [raised |-> "FileNotFoundError", value |-> << >>]
    ELSE IF \E i \in 1..Len(fs[FileKey(file_path)]) : fs[FileKey(file_path)][i] = Undecodable
    THEN [raised |-> "UnicodeDecodeError", value |-> << >>]
    ELSE [raised |-> "", value |-> fs[FileKey(file_path)]]

\* read_local_file(file_path, with_diagnostics=True): [raised, value]
read_with_diagnostics(fs, file_path, run) ==
    LET rd == read_local_file(fs, file_path)
        diagnostics == run_linter_auto(file_path, run)
    IN  IF rd.raised # "" THEN rd
        ELSE IF diagnostics.raised # "" THEN [raised |-> diagnostics.raised, value |-> << >>]
        ELSE IF diagnostics.value # << >>
        THEN [raised |-> "",
              value |-> rd.value \o << "\n\n# Linter diagnostics for ", file_path, ":\n" >>
                            \o diagnostics.value \o << "\n" >>]
        ELSE rd

\* 5MB limit of create_file
MaxFileSize == 5000000

WriteFile(fs, path, content) ==
    [k \in DOMAIN fs \cup {FileKey(path)} |->
        IF k = FileKey(path) THEN content ELSE fs[k]]

\* create_file: [raised, fs]
create_file(fs, path, content) ==
    IF HasTildePart(path)
    THEN [raised |-> "ValueError", fs |-> fs]
    ELSE IF Len(content) > MaxFileSize
    THEN [raised |-> "ValueError", fs |-> fs]
    ELSE [raised |-> "", fs |-> WriteFile(fs, path, content)]

\* apply_diff_edit: the file system it leaves.  It returns None and swallows
\* FileNotFoundError and ValueError, so the file system is all it yields.
apply_diff_edit(fs, path, original_snippet, new_snippet) ==
    LET rd == read_local_file(fs, path) IN
    IF rd.raised # "" THEN fs
    ELSE
      LET content     == rd.value
          occurrences == PyCount(content, original_snippet)
      IN  IF occurrences = 0 THEN fs
          ELSE IF occurrences > 1 THEN fs
          ELSE create_file(fs, path,
                   PyReplaceFirst(content, original_snippet, new_snippet)).fs

----------------------------------------------------------------------------
(* Transcript entries (conversation.py, api_client.py) *)

\* A message content is a Python string or None.
None == [none |-> TRUE, s |-> << >>]
Str(s) == [none |-> FALSE, s |-> s]

\* prompts.py: the system prompt, one opaque token
system_PROMPT == << "system_PROMPT" >>

\* A message dictionary.  tool_calls = << >> stands for "no tool_calls key"
\* (the loop sets the key only to a non-empty list) and tool_call_id = ""
\* for "no tool_call_id key".
Message(role, content, tcs, id) ==
    [role |-> role, content |-> content, tool_calls |-> tcs, tool_call_id |-> id]

\* conversation.py: conversation_history at import time
InitialHistory == << Message("system", Str(system_PROMPT), << >>, "") >>

\* The value of `outcome` while nothing has been returned
NoOutcome == [pending |-> TRUE]

\* The value of edit_args while no edit is under test
NoEdit == [file_path |-> "", original_snippet |-> << >>, new_snippet |-> << >>]

----------------------------------------------------------------------------
(* EditSpec: apply_diff_edit on every small file and snippet pair *)

EditInputs ==
    [file_path : Paths,
     original_snippet : SeqsUpTo(FileChars, MaxSnippetLen),
     new_snippet : SeqsUpTo(FileChars, MaxSnippetLen)]

EditFileSystems ==
    { [k \in {} |-> << >>] } \cup
    { [k \in {normalize_path(p)} |-> c] :
          p \in Paths, c \in SeqsUpTo(FileChars, MaxContentLen) }

EditInit ==
    /\ conversation_history = InitialHistory
    /\ files \in EditFileSystems
    /\ edit_args \in EditInputs
    /\ files_before = files
    /\ history_before = InitialHistory
    /\ pc = "edit"
    /\ max_iterations = 0
    /\ iteration = 0
    /\ consecutive_trivial_iterations = 0
    /\ reasoning_content = << >>
    /\ final_content = << >>
    /\ tool_calls = << >>
    /\ formatted_tool_calls = << >>
    /\ exec_index = 0
    /\ outcome = NoOutcome
    /\ console = {}
    /\ supports_reasoning = FALSE
    /\ ManagerAtStart
    /\ clock = 0
    /\ stream = << >>
    /\ run_log = << >>
    /\ turns = 0

\* One call of apply_diff_edit(path, original_snippet, new_snippet)
ApplyDiffEdit ==
    /\ pc = "edit"
    /\ files_before' = files
    /\ files' = apply_diff_edit(files, edit_args.file_path,
                                edit_args.original_snippet, edit_args.new_snippet)
    /\ pc' = "edited"
    /\ UNCHANGED << conversation_history, max_iterations, iteration,
                    consecutive_trivial_iterations, reasoning_content,
                    final_content, tool_calls, formatted_tool_calls, exec_index,
                    outcome, console, supports_reasoning, mcpVars, clock, stream, run_log,
                    turns, edit_args, history_before >>

EditNext == ApplyDiffEdit

EditSpec == EditInit /\ [][EditNext]_vars

\* The positions (from 1) at which sub occurs in s, overlapping or not
OccurrencePositions(s, sub) == { i \in 1..(Len(s) + 1) : StartsWithAt(s, sub, i) }

\* s with the occurrence of old at position i replaced by new
ReplacedAt(s, i, old, new) ==
    SubSeq(s, 1, i - 1) \o new \o SubSeq(s, i + Len(old), Len(s))

\* C10: an edit changes the file only when the original snippet occurs
\* exactly once in its content, and then the content becomes the old content
\* with that occurrence replaced by the new snippet; with 0 or with 2 or more
\* occurrences the file is unchanged.  (Stated for a readable file on a path
\* create_file accepts.)
C10_EditExactlyOneOccurrence ==
    (/\ pc = "edited"
     /\ FileExists(files_before, edit_args.file_path)
     /\ ~HasTildePart(edit_args.file_path))
    =>
    LET k    == FileKey(edit_args.file_path)
        old  == files_before[k]
        occ  == OccurrencePositions(old, edit_args.original_snippet)
    IN  /\ DOMAIN files = DOMAIN files_before
        /\ \A other \in DOMAIN files \ {k} : files[other] = files_before[other]
        /\ Cardinality(occ) = 1 =>
              files[k] = ReplacedAt(old, CHOOSE i \in occ : TRUE,
                                    edit_args.original_snippet,
                                    edit_args.new_snippet)
        /\ Cardinality(occ) # 1 => files[k] = old

----------------------------------------------------------------------------
(* Tool calls and their arguments (api_client.py) *)

\* Raw argument texts of the model's tool calls, as the endpoint sends them
ArgsReadA     == "{\"file_path\":\"a.txt\"}"
ArgsCreateA   == "{\"file_path\":\"a.txt\",\"content\":\"ab\"}"
ArgsEditReal  == "{\"file_path\":\"a.txt\",\"original_snippet\":\"a\",\"new_snippet\":\"b\"}"
ArgsEditSpace == "{\"file_path\":\"a.txt\",\"original_snippet\":\"ab\",\"new_snippet\":\"a b\"}"
ArgsReadPy    == "{\"file_path\":\"a.py\"}"
ArgsCreatePy  == "{\"file_path\":\"a.py\",\"content\":\"ab\"}"
ArgsEditPy    == "{\"file_path\":\"a.py\",\"original_snippet\":\"a\",\"new_snippet\":\"b\"}"
ArgsReadNone  == "{\"file_paths\":[]}"
ArgsReadListA == "{\"file_paths\":[\"a.txt\"]}"
ArgsReadListAB == "{\"file_paths\":[\"a.txt\",\"b.txt\"]}"
ArgsReadListBA == "{\"file_paths\":[\"b.txt\",\"a.txt\"]}"
ArgsEmptyObj  == "{}"
ArgsArray     == "[]"

\* json.loads on the argument texts of the model: the decoded value of each
\* well-formed text; every other text (a truncated or malformed one) raises
\* JSONDecodeError.
JsonTable ==
    [t \in {ArgsReadA, ArgsCreateA, ArgsEditReal, ArgsEditSpace,
            ArgsReadPy, ArgsCreatePy, ArgsEditPy, ArgsEmptyObj, ArgsArray,
            ArgsReadNone, ArgsReadListA, ArgsReadListAB, ArgsReadListBA} |->
        CASE t = ArgsReadA     -> [isdict |-> TRUE, d |-> [file_path |-> "a.txt"]]
          [] t = ArgsReadNone  -> [isdict |-> TRUE, d |-> [file_paths |-> << >>]]
          [] t = ArgsReadListA -> [isdict |-> TRUE, d |-> [file_paths |-> << "a.txt" >>]]
          [] t = ArgsReadListAB -> [isdict |-> TRUE,
                                    d |-> [file_paths |-> << "a.txt", "b.txt" >>]]
          [] t = ArgsReadListBA -> [isdict |-> TRUE,
                                    d |-> [file_paths |-> << "b.txt", "a.txt" >>]]
          [] t = ArgsReadPy    -> [isdict |-> TRUE, d |-> [file_path |-> "a.py"]]
          [] t = ArgsCreatePy  -> [isdict |-> TRUE,
                                   d |-> [file_path |-> "a.py", content |-> << "a", "b" >>]]
          [] t = ArgsEditPy    -> [isdict |-> TRUE,
                                   d |-> [file_path |-> "a.py",
                                          original_snippet |-> << "a" >>,
                                          new_snippet |-> << "b" >>]]
          [] t = ArgsCreateA   -> [isdict |-> TRUE,
                                   d |-> [file_path |-> "a.txt", content |-> << "a", "b" >>]]
          [] t = ArgsEditReal  -> [isdict |-> TRUE,
                                   d |-> [file_path |-> "a.txt",
                                          original_snippet |-> << "a" >>,
                                          new_snippet |-> << "b" >>]]
          [] t = ArgsEditSpace -> [isdict |-> TRUE,
                                   d |-> [file_path |-> "a.txt",
                                          original_snippet |-> << "a", "b" >>,
                                          new_snippet |-> << "a", " ", "b" >>]]
          [] t = ArgsEmptyObj  -> [isdict |-> TRUE, d |-> [k \in {} |-> << >>]]
          [] t = ArgsArray     -> [isdict |-> FALSE, d |-> [k \in {} |-> << >>]]]

json_loads(text) ==
    IF text \in DOMAIN JsonTable
    THEN [raised |-> "", value |-> JsonTable[text]]
    ELSE [raised |-> "JSONDecodeError", value |-> [isdict |-> FALSE, d |-> [k \in {} |-> << >>]]]

\* Tool names are inspected character by character ("_" in function_name)
\* and built by concatenation, so they are sequences of characters.
READ_FILE == << "r", "e", "a", "d", "_", "f", "i", "l", "e" >>
CREATE_FILE == << "c", "r", "e", "a", "t", "e", "_", "f", "i", "l", "e" >>
EDIT_FILE == << "e", "d", "i", "t", "_", "f", "i", "l", "e" >>
READ_MULTIPLE_FILES ==
    << "r", "e", "a", "d", "_", "m", "u", "l", "t", "i", "p", "l", "e", "_", "f", "i", "l", "e", "s" >>
CREATE_MULTIPLE_FILES ==
    << "c", "r", "e", "a", "t", "e", "_", "m", "u", "l", "t", "i", "p", "l", "e", "_", "f", "i", "l", "e", "s" >>

\* the test of line 34 never taking a name for an MCP tool
HasUnderscore_Never(function_name) == FALSE

\* `"_" in function_name`
HasUnderscore(function_name) == \E i \in 1..Len(function_name) : function_name[i] = "_"

\* A tool call as the loop stores it
ToolCall(id, name, arguments) ==
    [id |-> id, type |-> "function",
     function |-> [name |-> name, arguments |-> arguments]]

----------------------------------------------------------------------------
(* ensure_file_in_context (file_operations.py) *)

\* f"Content of file '{normalized_path}'"
FileMarker(normalized_path) == << "Content of file '", normalized_path, "'" >>

RECURSIVE ScanForMarker(_, _, _)
\* any(file_marker in msg["content"] for msg in conversation_history), message
\* by message: "present" at the first message holding the marker, "TypeError"
\* at the first message whose content is None, "absent" at the end.
ScanForMarker(history, marker, i) ==
    IF i > Len(history) THEN "absent"
    ELSE IF history[i].content.none THEN "TypeError"
    ELSE IF PyContains(history[i].content.s, marker) THEN "present"
    ELSE ScanForMarker(history, marker, i + 1)

\* ensure_file_in_context: [raised, value, history]
ensure_file_in_context(history, fs, file_path) ==
    LET normalized_path == normalize_path(file_path)
        rd     == read_local_file(fs, normalized_path)
        marker == FileMarker(normalized_path)
        scan   == ScanForMarker(history, marker, 1)
    IN  IF rd.raised # ""
        THEN [raised |-> "", value |-> FALSE, history |-> history]
        ELSE IF scan = "TypeError"
        THEN [raised |-> "TypeError", value |-> FALSE, history |-> history]
        ELSE IF scan = "absent"
        THEN [raised |-> "", value |-> TRUE,
              history |-> Append(history,
                  Message("system", Str(marker \o << ":\n\n" >> \o rd.value), << >>, ""))]
        ELSE [raised |-> "", value |-> TRUE, history |-> history]

----------------------------------------------------------------------------
(* execute_function_call_dict (api_client.py) *)

\* f"Error executing {function_name}: {str(e)}"
ErrorExecuting(function_name, e) ==
    << "Error executing " >> \o function_name \o << ": ", e >>

ExecResult(text, history, fs) == [result |-> text, history |-> history, fs |-> fs]

\* The error_info of lines 44-48, 70-74 and 96-100: [raised, value]
ErrorInfo(header, file_path, run) ==
    IF ~is_supported_file(file_path) THEN [raised |-> "", value |-> << >>]
    ELSE LET linter_output == run_linter_auto(file_path, run) IN
         IF linter_output.raised # "" THEN linter_output
         ELSE IF PyStrip(linter_output.value) # << >>
         THEN [raised |-> "",
               value |-> << header >> \o linter_output.value \o << "\n\nISSUES DETECTED" >>]
         ELSE [raised |-> "", value |-> << >>]

\* "=" * 50
Rule == "=================================================="

RECURSIVE JoinResults(_)
\* "\n\n".join(results)
JoinResults(results) ==
    IF results = << >> THEN << >>
    ELSE IF Len(results) = 1 THEN results[1]
    ELSE results[1] \o << "\n\n" >> \o JoinResults(Tail(results))

RECURSIVE ReadEach(_, _, _, _)
\* lines 53-60: the for loop over file_paths, from the k-th path on:
\* [raised, results].  An OSError becomes the result of its path; any other
\* exception leaves the loop.
ReadEach(fs, file_paths, k, run) ==
    IF k > Len(file_paths) THEN [raised |-> "", results |-> << >>]
    ELSE LET file_path == file_paths[k]
             normalized_path == normalize_path(file_path)
             rd == read_with_diagnostics(fs, normalized_path, run)
             rest == ReadEach(fs, file_paths, k + 1, run)
         IN  IF rd.raised # "" /\ ~IsOSError(rd.raised)
             THEN [raised |-> rd.raised, results |-> << >>]
             ELSE IF rest.raised # "" THEN rest
             ELSE [raised |-> "",
                   results |->
                       << IF rd.raised = ""
                          THEN FileMarker(normalized_path) \o << ":\n\n" >> \o rd.value
                          ELSE << "Error reading '", file_path, "': ", rd.raised >> >>
                       \o rest.results]

\* lines 51-61: read_multiple_files: [raised, value]
read_multiple_files(fs, file_paths, run) ==
    LET each == ReadEach(fs, file_paths, 1, run) IN
        IF each.raised # "" THEN [raised |-> each.raised, value |-> << >>]
        ELSE [raised |-> "", value |-> << "\n\n", Rule >> \o JoinResults(each.results)]

\* execute_function_call_dict: the result text, and the transcript and file
\* system it leaves.  Every exception raised inside is caught by the
\* handler's `except Exception` and becomes an error text.
execute_function_call_dict(tool_call_dict, history, fs, linter) ==
    LET function_name == tool_call_dict.function.name
        loaded        == json_loads(tool_call_dict.function.arguments)
        isdict        == loaded.value.isdict
        arguments     == loaded.value.d
        Has(k)        == isdict /\ k \in DOMAIN arguments
        \* arguments[k] on a list raises TypeError, on a dict without k KeyError
        Missing(k)    == IF isdict THEN "KeyError" ELSE "TypeError"
    IN
    IF loaded.raised # ""
    THEN ExecResult(ErrorExecuting(function_name, loaded.raised), history, fs)
    ELSE IF HasUnderscore(function_name) /\ function_name \notin
                {READ_FILE, CREATE_FILE, EDIT_FILE,
                 READ_MULTIPLE_FILES, CREATE_MULTIPLE_FILES}
    THEN ExecResult(<< "Error: Legacy MCP tool execution disabled. Using Pydantic AI agent instead." >>,
                    history, fs)
    ELSE IF function_name = READ_FILE
    THEN IF ~Has("file_path")
         THEN ExecResult(ErrorExecuting(function_name, Missing("file_path")), history, fs)
         ELSE LET normalized_path == normalize_path(arguments.file_path)
                  rd == read_with_diagnostics(fs, normalized_path, linter.first)
                  error_info == ErrorInfo("\n\nLINTER DIAGNOSTICS:\n", normalized_path,
                                          linter.second)
              IN  IF rd.raised # ""
                  THEN ExecResult(ErrorExecuting(function_name, rd.raised), history, fs)
                  ELSE IF error_info.raised # ""
                  THEN ExecResult(ErrorExecuting(function_name, error_info.raised),
                                  history, fs)
                  ELSE ExecResult(FileMarker(normalized_path) \o << ":\n\n" >>
                                      \o rd.value \o error_info.value,
                                  history, fs)
    ELSE IF function_name = CREATE_FILE
    THEN IF ~Has("file_path")
         THEN ExecResult(ErrorExecuting(function_name, Missing("file_path")), history, fs)
         ELSE IF ~Has("content")
         THEN ExecResult(ErrorExecuting(function_name, Missing("content")), history, fs)
         ELSE LET cr == create_file(fs, arguments.file_path, arguments.content)
                  error_info == ErrorInfo("\n\nLINTER DIAGNOSTICS for new file:\n",
                                          arguments.file_path, linter.first)
              IN  IF cr.raised # ""
                  THEN ExecResult(ErrorExecuting(function_name, cr.raised), history, fs)
                  ELSE IF error_info.raised # ""
                  THEN ExecResult(ErrorExecuting(function_name, error_info.raised),
                                  history, cr.fs)
                  ELSE ExecResult(<< "Successfully created file '", arguments.file_path, "'" >>
                                      \o error_info.value,
                                  history, cr.fs)
    ELSE IF function_name = EDIT_FILE
    THEN IF ~Has("file_path")
         THEN ExecResult(ErrorExecuting(function_name, Missing("file_path")), history, fs)
         ELSE IF ~Has("original_snippet")
         THEN ExecResult(ErrorExecuting(function_name, Missing("original_snippet")), history, fs)
         ELSE IF ~Has("new_snippet")
         THEN ExecResult(ErrorExecuting(function_name, Missing("new_snippet")), history, fs)
         ELSE LET ctx == ensure_file_in_context(history, fs, arguments.file_path)
                  edited == apply_diff_edit(fs, arguments.file_path,
                                            arguments.original_snippet,
                                            arguments.new_snippet)
                  error_info == ErrorInfo("\n\nLINTER DIAGNOSTICS after edit:\n",
                                          arguments.file_path, linter.first)
              IN  IF ctx.raised # ""
                  THEN ExecResult(ErrorExecuting(function_name, ctx.raised), history, fs)
                  ELSE IF ~ctx.value
                  THEN ExecResult(<< "Error: Could not read file '", arguments.file_path,
                                     "' for editing" >>, ctx.history, fs)
                  ELSE IF error_info.raised # ""
                  THEN ExecResult(ErrorExecuting(function_name, error_info.raised),
                                  ctx.history, edited)
                  ELSE ExecResult(<< "Successfully edited file '", arguments.file_path, "'" >>
                                      \o error_info.value,
                                  ctx.history, edited)
    ELSE IF function_name = READ_MULTIPLE_FILES
    THEN IF ~Has("file_paths")
         THEN ExecResult(ErrorExecuting(function_name, Missing("file_paths")), history, fs)
         ELSE LET rm == read_multiple_files(fs, arguments.file_paths, linter.first)
              IN  IF rm.raised # ""
                  THEN ExecResult(ErrorExecuting(function_name, rm.raised), history, fs)
                  ELSE ExecResult(rm.value, history, fs)
    ELSE IF function_name = CREATE_MULTIPLE_FILES
    THEN \* no tool call of the model carries the list argument of this tool:
         \* the first subscript of `arguments` fails
         ExecResult(ErrorExecuting(function_name, Missing("files")), history, fs)
    ELSE ExecResult(<< "Unknown function: " >> \o function_name, history, fs)

----------------------------------------------------------------------------
(* _is_trivial_iteration (api_client.py) *)

trivial_keywords ==
    { << "b", "l", "a", "n", "k", " ", "l", "i", "n", "e" >>,
      << "s", "p", "a", "c", "i", "n", "g" >>,
      << "w", "h", "i", "t", "e", "s", "p", "a", "c", "e" >>,
      << "i", "n", "d", "e", "n", "t", "a", "t", "i", "o", "n" >>,
      << "e", "x", "t", "r", "a", " ", "b", "l", "a", "n", "k" >>,
      << "r", "e", "m", "o", "v", "e", " ", "b", "l", "a", "n", "k" >>,
      << "a", "d", "d", " ", "b", "l", "a", "n", "k" >>,
      << "p", "e", "p", " ", "8" >>,
      << "t", "w", "o", " ", "b", "l", "a", "n", "k", " ", "l", "i", "n", "e", "s" >>,
      << "b", "l", "a", "n", "k", " ", "l", "i", "n", "e", "s", " ", "b", "e", "t", "w", "e", "e", "n" >>,
      << "t", "r", "a", "i", "l", "i", "n", "g", " ", "w", "h", "i", "t", "e", "s", "p", "a", "c", "e" >> }
\* str.lower on the characters of the model
PyLower(s) ==
    [i \in 1..Len(s) |-> CASE s[i] = "A" -> "a" [] s[i] = "B" -> "b" [] s[i] = "D" -> "d"
                             [] OTHER -> s[i]]

\* args.get(key, '')
DictGet(d, key) == IF key \in DOMAIN d THEN d[key] ELSE << >>

\* The body of the loop for one edit_file call whose arguments decoded to a
\* dict: TRUE when the call makes the batch trivial
\* (the three strings are bound by \E over singletons, so each is a value
\* computed once)
EditCallIsTrivial(args) ==
    \E original \in { PyLower(DictGet(args, "original_snippet")) },
       new      \in { PyLower(DictGet(args, "new_snippet")) } :
        \E combined_text \in { PyLower(original \o << " " >> \o new) } :
            \/ /\ Len(PyStrip(original)) > 0
               /\ Len(PyStrip(new)) > 0
               /\ PyRemoveWhitespace(original) = PyRemoveWhitespace(new)
            \/ \E keyword \in trivial_keywords : PyContains(combined_text, keyword)

RECURSIVE TrivialFrom(_, _)
\* The for loop of _is_trivial_iteration from position i: [raised, value].
\* json.JSONDecodeError and KeyError are skipped; args.get on a decoded value
\* that is not a dict raises AttributeError, which nothing catches.
TrivialFrom(calls, i) ==
    IF i > Len(calls) THEN [raised |-> "", value |-> FALSE]
    ELSE IF calls[i].function.name # EDIT_FILE THEN TrivialFrom(calls, i + 1)
    ELSE LET loaded == json_loads(calls[i].function.arguments) IN
         IF loaded.raised # "" THEN TrivialFrom(calls, i + 1)
         ELSE IF ~loaded.value.isdict THEN [raised |-> "AttributeError", value |-> FALSE]
         ELSE IF EditCallIsTrivial(loaded.value.d) THEN [raised |-> "", value |-> TRUE]
         ELSE TrivialFrom(calls, i + 1)

\* _is_trivial_iteration(tool_calls): [raised, value]
IsTrivialIteration(calls) ==
    IF Len(calls) = 0 THEN [raised |-> "", value |-> FALSE]
    ELSE TrivialFrom(calls, 1)

----------------------------------------------------------------------------
(* conversation.py: trim_conversation_history *)

\* `if len(conversation_history) <= 20`
TrimThreshold == 20
\* `other_msgs[-15:]`
KeepRecent == 15

\* trim that always compacts, whatever the length
trim_NoThreshold(history) ==
    LET system_msgs == SelectSeq(history, LAMBDA msg : msg.role = "system")
        other_msgs  == SelectSeq(history, LAMBDA msg : msg.role # "system")
    IN  system_msgs \o (IF Len(other_msgs) > KeepRecent
                        THEN SubSeq(other_msgs, Len(other_msgs) - KeepRecent + 1,
                                    Len(other_msgs))
                        ELSE other_msgs)

\* trim that keeps the most recent entries of any role
trim_RecentOnly(history) ==
    IF Len(history) <= TrimThreshold THEN history
    ELSE SubSeq(history, Len(history) - KeepRecent + 1, Len(history))

\* trim that drops the oldest non-system entry of a long transcript
trim_DropOldest(history) ==
    IF Len(history) <= TrimThreshold THEN history
    ELSE LET system_msgs == SelectSeq(history, LAMBDA msg : msg.role = "system")
             other_msgs  == SelectSeq(history, LAMBDA msg : msg.role # "system")
         IN  system_msgs \o (IF other_msgs = << >> THEN << >> ELSE Tail(other_msgs))

trim_conversation_history(history) ==
    IF Len(history) <= TrimThreshold THEN history
    ELSE LET system_msgs == SelectSeq(history, LAMBDA msg : msg.role = "system")
             other_msgs  == SelectSeq(history, LAMBDA msg : msg.role # "system")
             kept == IF Len(other_msgs) > KeepRecent
                     THEN SubSeq(other_msgs, Len(other_msgs) - KeepRecent + 1,
                                 Len(other_msgs))
                     ELSE other_msgs
         IN  system_msgs \o kept

----------------------------------------------------------------------------
(* The streamed response and its reassembly (api_client.py, lines 356-396) *)

\* tool_call_delta.index is None
NoIndex == -1

\* One element of chunk.choices[0].delta.tool_calls.  A delta whose
\* `function` is None is one with empty name and arguments.
Delta(index, id, name, arguments) ==
    [index |-> index, id |-> id, name |-> name, arguments |-> arguments]

\* One chunk of the stream: the fields of chunk.choices[0].delta, each empty
\* when the delta does not carry it
Chunk(reasoning, content, deltas) ==
    [reasoning_content |-> reasoning, content |-> content, tool_calls |-> deltas]

ReasoningChunk(text) == Chunk(text, << >>, << >>)
ContentChunk(text) == Chunk(<< >>, text, << >>)
ToolChunk(deltas) == Chunk(<< >>, << >>, deltas)

EmptySlot ==
    [id |-> "", type |-> "function", function |-> [name |-> << >>, arguments |-> ""]]

\* ApplyDelta with a name part stored over the earlier parts, the way the
\* id is, instead of appended
ApplyDelta_NameOverwritten(tcs, d) ==
    IF d.index = NoIndex THEN tcs
    ELSE LET grown == IF Len(tcs) <= d.index
                      THEN tcs \o [i \in 1..(d.index + 1 - Len(tcs)) |-> EmptySlot]
                      ELSE tcs
             slot  == grown[d.index + 1]
         IN  [grown EXCEPT ![d.index + 1] =
                 [id   |-> IF d.id # "" THEN d.id ELSE slot.id,
                  type |-> "function",
                  function |->
                     [name |-> IF d.name # << >> THEN d.name ELSE slot.function.name,
                      arguments |-> IF d.arguments # ""
                                    THEN slot.function.arguments \o d.arguments
                                    ELSE slot.function.arguments]]]

\* lines 381-396: one tool_call_delta applied to the accumulated tool_calls
ApplyDelta(tcs, d) ==
    IF d.index = NoIndex THEN tcs
    ELSE LET grown == IF Len(tcs) <= d.index
                      THEN tcs \o [i \in 1..(d.index + 1 - Len(tcs)) |-> EmptySlot]
                      ELSE tcs
             slot  == grown[d.index + 1]
         IN  [grown EXCEPT ![d.index + 1] =
                 [id   |-> IF d.id # "" THEN d.id ELSE slot.id,
                  type |-> "function",
                  function |->
                     [name |-> IF d.name # << >> THEN slot.function.name \o d.name
                               ELSE slot.function.name,
                      arguments |-> IF d.arguments # ""
                                    THEN slot.function.arguments \o d.arguments
                                    ELSE slot.function.arguments]]]

RECURSIVE ApplyDeltas(_, _)
\* line 380: for tool_call_delta in chunk.choices[0].delta.tool_calls
ApplyDeltas(tcs, deltas) ==
    IF deltas = << >> THEN tcs
    ELSE ApplyDeltas(ApplyDelta(tcs, Head(deltas)), Tail(deltas))

\* lines 361-396: the body of `for chunk in stream`, on the accumulators
ProcessChunk(acc, chunk, reasoning_supported) ==
    IF reasoning_supported /\ chunk.reasoning_content # << >>
    THEN [acc EXCEPT !.reasoning_content = @ \o chunk.reasoning_content]
    ELSE IF chunk.content # << >>
    THEN [acc EXCEPT !.final_content = @ \o chunk.content]
    ELSE IF chunk.tool_calls # << >>
    THEN [acc EXCEPT !.tool_calls = ApplyDeltas(@, chunk.tool_calls)]
    ELSE acc

\* lines 356-359
EmptyAccumulators == [reasoning_content |-> << >>, final_content |-> << >>, tool_calls |-> << >>]

RECURSIVE Reassemble(_, _, _)
\* the whole `for chunk in stream` loop
Reassemble(acc, chunks, reasoning_supported) ==
    IF chunks = << >> THEN acc
    ELSE Reassemble(ProcessChunk(acc, Head(chunks), reasoning_supported),
                    Tail(chunks), reasoning_supported)

\* no id is made up: a call without a streamed id keeps the empty id
SynthesizedId_Empty(i, now) == ""

\* f"call_{i}_{int(time.time() * 1000)}"
SynthesizedId(i, now) == "call_" \o ToString(i) \o "_" \o ToString(now)

RECURSIVE FormatFrom_KeepUnnamed(_, _, _)
\* FormatFrom without the test of the function name
FormatFrom_KeepUnnamed(tcs, i, now) ==
    IF i >= Len(tcs) THEN << >>
    ELSE LET tc == tcs[i + 1] IN
         << ToolCall(IF tc.id # "" THEN tc.id ELSE SynthesizedId(i, now),
                     tc.function.name, tc.function.arguments) >>
             \o FormatFrom_KeepUnnamed(tcs, i + 1, now)

RECURSIVE FormatFrom(_, _, _)
\* lines 410-422: for i, tc in enumerate(tool_calls), from position i + 1
FormatFrom(tcs, i, now) ==
    IF i >= Len(tcs) THEN << >>
    ELSE LET tc == tcs[i + 1] IN
         IF tc.function.name # << >>
         THEN << ToolCall(IF tc.id # "" THEN tc.id ELSE SynthesizedId(i, now),
                          tc.function.name, tc.function.arguments) >>
                  \o FormatFrom(tcs, i + 1, now)
         ELSE FormatFrom(tcs, i + 1, now)

FormatToolCalls(tcs, now) == FormatFrom(tcs, 0, now)

----------------------------------------------------------------------------
(* _should_use_mcp (api_client.py) *)

mcp_keywords ==
    { << "d", "o", "c", "u", "m", "e", "n", "t", "a", "t", "i", "o", "n" >>,
      << "d", "o", "c", "s" >>,
      << "l", "i", "b", "r", "a", "r", "y" >>,
      << "p", "a", "c", "k", "a", "g", "e" >>,
      << "f", "r", "a", "m", "e", "w", "o", "r", "k" >>,
      << "a", "p", "i", " ", "r", "e", "f", "e", "r", "e", "n", "c", "e" >>,
      << "h", "o", "w", " ", "t", "o", " ", "u", "s", "e" >>,
      << "t", "u", "t", "o", "r", "i", "a", "l" >>,
      << "g", "u", "i", "d", "e" >>,
      << "e", "x", "a", "m", "p", "l", "e" >>,
      << "c", "o", "n", "t", "e", "x", "t", "7" >>,
      << "r", "e", "s", "e", "a", "r", "c", "h" >>,
      << "p", "r", "i", "c", "e" >>,
      << "b", "t", "c" >>,
      << "b", "i", "t", "c", "o", "i", "n" >>,
      << "e", "t", "h", "e", "r", "e", "u", "m" >>,
      << "e", "t", "h" >>,
      << "c", "r", "y", "p", "t", "o" >>,
      << "c", "r", "y", "p", "t", "o", "c", "u", "r", "r", "e", "n", "c", "y" >>,
      << "t", "r", "a", "d", "i", "n", "g" >>,
      << "e", "x", "c", "h", "a", "n", "g", "e" >>,
      << "b", "i", "n", "a", "n", "c", "e" >>,
      << "c", "o", "i", "n", "b", "a", "s", "e" >>,
      << "k", "r", "a", "k", "e", "n" >>,
      << "m", "a", "r", "k", "e", "t" >>,
      << "c", "c", "x", "t" >>,
      << "c", "c", "t", "x" >>,
      << "m", "c", "p", " ", "s", "e", "r", "v", "e", "r" >>,
      << "m", "c", "p", " ", "t", "o", "o", "l" >>,
      << "u", "s", "e", " ", "m", "c", "p" >>,
      << "f", "e", "t", "c", "h" >>,
      << "g", "e", "t", " ", "p", "r", "i", "c", "e" >>,
      << "m", "a", "r", "k", "e", "t", " ", "d", "a", "t", "a" >> }
should_use_mcp(user_message) ==
    \E keyword \in mcp_keywords : PyContains(PyLower(user_message), keyword)

----------------------------------------------------------------------------
(* _recursive_function_calling_loop (api_client.py, lines 309-493) *)

editVars == << edit_args, files_before, history_before >>
configVars == << max_iterations, supports_reasoning >>
accVars == << reasoning_content, final_content, tool_calls >>

Event(ev, id) == [ev |-> ev, id |-> id]

\* "I have completed the analysis." (line 484), one opaque token
Placeholder == << "I have completed the analysis." >>

\* the test of line 490 with > in place of >=
ReachedCap_Strict(i, cap) == i > cap

\* line 490: `if iteration >= max_iterations`
ReachedCap(i, cap) == i >= cap

\* lines 490-493, reached by `break` or by the end of the while loop
ReturnFromLoop(history, lines, log) ==
    /\ conversation_history' = history
    /\ console' = console \cup lines \cup
                    (IF ReachedCap(iteration, max_iterations)
                     THEN {"max_iterations"} ELSE {})
    /\ outcome' = [success |-> TRUE]
    /\ pc' = "idle"
    /\ run_log' = Append(log, Event("return", ""))

\* An exception nothing catches: it leaves the loop, stream_openai_response
\* and main(), and the process ends.
Escape(history, exception, log) ==
    /\ conversation_history' = history
    /\ pc' = "crashed"
    /\ run_log' = Append(log, Event("raise", exception))
    /\ UNCHANGED << console, outcome >>

\* `while iteration < max_iterations`, with the test one too far
LoopContinues_OffByOne(i, cap) == i <= cap

\* line 324: `while iteration < max_iterations`
LoopContinues(i, cap) == i < cap

\* lines 324-359: the while test; one more iteration issues the request
LoopHead ==
    /\ pc = "loop"
    /\ IF LoopContinues(iteration, max_iterations)
       THEN /\ iteration' = iteration + 1
            /\ clock' = clock + 1
            /\ pc' = "streaming"
            /\ reasoning_content' = << >>
            /\ final_content' = << >>
            /\ tool_calls' = << >>
            /\ stream' = << >>
            /\ run_log' = Append(run_log, Event("request", ""))
            /\ UNCHANGED << conversation_history, console, outcome >>
       ELSE /\ ReturnFromLoop(conversation_history, {}, run_log)
            /\ UNCHANGED << iteration, clock, accVars, stream >>
    /\ UNCHANGED << files, consecutive_trivial_iterations, formatted_tool_calls,
                    exec_index, turns, configVars, mcpVars, editVars >>

\* line 349: client.chat.completions.create raises (endpoint unreachable)
RequestFails ==
    /\ pc = "loop"
    /\ LoopContinues(iteration, max_iterations)
    /\ iteration' = iteration + 1
    /\ Escape(conversation_history, "APIConnectionError", run_log)
    /\ UNCHANGED << files, consecutive_trivial_iterations, formatted_tool_calls,
                    exec_index, turns, clock, accVars, stream, configVars, mcpVars, editVars >>

\* StreamFails with the text accumulated so far appended as an assistant entry
StreamFails_KeepsPartial ==
    /\ pc = "streaming"
    /\ Escape(Append(conversation_history,
                     Message("assistant",
                             IF final_content # << >> THEN Str(final_content) ELSE None,
                             << >>, "")),
              "APIError", run_log)
    /\ UNCHANGED << files, iteration, consecutive_trivial_iterations,
                    formatted_tool_calls, exec_index, turns, clock, accVars, stream,
                    configVars, mcpVars, editVars >>

\* line 361: `for chunk in stream` raises (the stream breaks or is malformed)
StreamFails ==
    /\ pc = "streaming"
    /\ Escape(conversation_history, "APIError", run_log)
    /\ UNCHANGED << files, iteration, consecutive_trivial_iterations,
                    formatted_tool_calls, exec_index, turns, clock, accVars, stream,
                    configVars, mcpVars, editVars >>

Accumulators ==
    [reasoning_content |-> reasoning_content, final_content |-> final_content,
     tool_calls |-> tool_calls]

\* lines 361-396: one chunk arrives and is accumulated
StreamChunk(chunk) ==
    /\ pc = "streaming"
    /\ Len(stream) < MaxChunks
    /\ LET acc == ProcessChunk(Accumulators, chunk, supports_reasoning) IN
          /\ reasoning_content' = acc.reasoning_content
          /\ final_content' = acc.final_content
          /\ tool_calls' = acc.tool_calls
    /\ stream' = Append(stream, chunk)
    /\ UNCHANGED << conversation_history, files, pc, iteration,
                    consecutive_trivial_iterations, formatted_tool_calls, exec_index,
                    outcome, console, clock, run_log, turns, configVars, mcpVars, editVars >>

\* line 398: the stream ends
StreamEnd ==
    /\ pc = "streaming"
    /\ pc' = "decide"
    /\ run_log' = Append(run_log, Event("response", ""))
    /\ UNCHANGED << conversation_history, files, iteration,
                    consecutive_trivial_iterations, formatted_tool_calls, exec_index,
                    outcome, console, clock, stream, turns, accVars, configVars, mcpVars,
                    editVars >>

\* lines 361-398 in one step: a whole response streams and ends
StreamResponse(chunks) ==
    /\ pc = "streaming"
    /\ LET acc == Reassemble(Accumulators, chunks, supports_reasoning) IN
          /\ reasoning_content' = acc.reasoning_content
          /\ final_content' = acc.final_content
          /\ tool_calls' = acc.tool_calls
    /\ stream' = chunks
    /\ pc' = "decide"
    /\ run_log' = Append(run_log, Event("response", ""))
    /\ UNCHANGED << conversation_history, files, iteration,
                    consecutive_trivial_iterations, formatted_tool_calls, exec_index,
                    outcome, console, clock, turns, configVars, mcpVars, editVars >>

\* AssistantWithTools without line 428: the text stays in the content
AssistantWithTools_KeepText(text, formatted) ==
    LET assistant_message ==
            Message("assistant", IF text # << >> THEN Str(text) ELSE None, << >>, "")
    IN  [assistant_message EXCEPT !.tool_calls = formatted]

\* lines 400-404 and 427-430: the assistant message of a response with tool calls
AssistantWithTools(text, formatted) ==
    LET assistant_message ==
            Message("assistant", IF text # << >> THEN Str(text) ELSE None, << >>, "")
    IN  [assistant_message EXCEPT !.content = None, !.tool_calls = formatted]

\* AssistantWithoutTools without lines 482-484: no placeholder is put in
AssistantWithoutTools_NoPlaceholder(text) ==
    Message("assistant", IF text # << >> THEN Str(text) ELSE None, << >>, "")

\* lines 400-404 and 479-486: the assistant message of a response without
AssistantWithoutTools(text) ==
    LET content     == IF text # << >> THEN Str(text) ELSE None
        has_content == ~content.none /\ PyStrip(content.s) # << >>
    IN  Message("assistant", IF has_content THEN content ELSE Str(Placeholder), << >>, "")

\* `if consecutive_trivial_iterations >= 3`
TrivialLimit == 3

\* the stop test with > in place of >=
TrivialStop_OneLate(count) == count > TrivialLimit

\* line 448: `if consecutive_trivial_iterations >= 3`
TrivialStop(count) == count >= TrivialLimit

\* the count update without the reset of line 445
TrivialCount_NoReset(is_trivial_iteration, count) ==
    IF is_trivial_iteration THEN count + 1 ELSE count

\* lines 442-445: the consecutive count after one judgement
TrivialCount(is_trivial_iteration, count) ==
    IF is_trivial_iteration THEN count + 1 ELSE 0

\* lines 400-451 and 479-488: after the stream, up to the for loop over the batch
Decide ==
    /\ pc = "decide"
    /\ IF tool_calls # << >>
       THEN LET formatted == FormatToolCalls(tool_calls, clock) IN
            IF formatted # << >>
            THEN LET history == Append(conversation_history,
                                       AssistantWithTools(final_content, formatted))
                     trivial == IsTrivialIteration(formatted)
                     count   == TrivialCount(trivial.value,
                                             consecutive_trivial_iterations)
                     log     == Append(run_log,
                                       Event("assistant",
                                             IF trivial.raised # "" THEN "undecided"
                                             ELSE IF trivial.value THEN "trivial"
                                             ELSE "nontrivial"))
                 IN  /\ formatted_tool_calls' = formatted
                     /\ IF trivial.raised # ""
                        THEN /\ Escape(history, trivial.raised, log)
                             /\ UNCHANGED << consecutive_trivial_iterations, exec_index >>
                        ELSE /\ consecutive_trivial_iterations' = count
                             /\ IF TrivialStop(count)
                                THEN /\ ReturnFromLoop(history, {"trivial_stop"}, log)
                                     /\ UNCHANGED exec_index
                                ELSE /\ conversation_history' = history
                                     /\ pc' = "exec"
                                     /\ exec_index' = 1
                                     /\ run_log' = log
                                     /\ UNCHANGED << console, outcome >>
            ELSE \* every accumulated call has an empty name: nothing is
                 \* appended and the while loop goes round
                 /\ formatted_tool_calls' = formatted
                 /\ pc' = "loop"
                 /\ run_log' = Append(run_log, Event("nothing", ""))
                 /\ UNCHANGED << conversation_history, consecutive_trivial_iterations,
                                 exec_index, console, outcome >>
       ELSE /\ ReturnFromLoop(Append(conversation_history,
                                     AssistantWithoutTools(final_content)),
                              {"task_completed"},
                              Append(run_log, Event("assistant", "text")))
            /\ UNCHANGED << formatted_tool_calls, consecutive_trivial_iterations,
                            exec_index >>
    /\ UNCHANGED << files, iteration, clock, stream, turns, accVars, configVars, mcpVars,
                    editVars >>

\* The linter runs the environment can answer a call with: the linter is run
\* only for a call that names a supported file
LinterRunsFor(tool_call) ==
    LET loaded == json_loads(tool_call.function.arguments) IN
        IF /\ loaded.raised = ""
           /\ loaded.value.isdict
           /\ "file_path" \in DOMAIN loaded.value.d
           /\ is_supported_file(loaded.value.d.file_path)
        THEN LinterPairs
        ELSE {NoLinterRun}

\* ExecTool with every call run on the files as they were before the batch
ExecTool_OnSnapshot ==
    /\ pc = "exec"
    /\ \E linter \in LinterRunsFor(formatted_tool_calls[exec_index]) :
       LET tool_call == formatted_tool_calls[exec_index]
           r == execute_function_call_dict(tool_call, conversation_history, files_before,
                                           linter)
           last == exec_index = Len(formatted_tool_calls)
       IN  /\ conversation_history' =
                  Append(r.history, Message("tool", Str(r.result), << >>, tool_call.id))
           /\ files' = r.fs
           /\ exec_index' = exec_index + 1
           /\ pc' = IF last THEN "loop" ELSE "exec"
           /\ run_log' = IF last
                         THEN run_log \o << Event("exec", tool_call.id), Event("batch", "") >>
                         ELSE Append(run_log, Event("exec", tool_call.id))
    /\ UNCHANGED << iteration, consecutive_trivial_iterations, formatted_tool_calls,
                    outcome, console, clock, stream, turns, accVars, configVars, mcpVars,
                    editVars >>

\* lines 453-478: one round of the for loop over formatted_tool_calls
ExecTool ==
    /\ pc = "exec"
    /\ \E linter \in LinterRunsFor(formatted_tool_calls[exec_index]) :
       LET tool_call == formatted_tool_calls[exec_index]
           r == execute_function_call_dict(tool_call, conversation_history, files, linter)
           last == exec_index = Len(formatted_tool_calls)
       IN  /\ conversation_history' =
                  Append(r.history, Message("tool", Str(r.result), << >>, tool_call.id))
           /\ files' = r.fs
           /\ exec_index' = exec_index + 1
           /\ pc' = IF last THEN "loop" ELSE "exec"
           /\ run_log' = IF last
                         THEN run_log \o << Event("exec", tool_call.id), Event("batch", "") >>
                         ELSE Append(run_log, Event("exec", tool_call.id))
    /\ UNCHANGED << iteration, consecutive_trivial_iterations, formatted_tool_calls,
                    outcome, console, clock, stream, turns, accVars, configVars, mcpVars,
                    editVars >>

----------------------------------------------------------------------------
(* stream_openai_response, _handle_mcp_enhanced_query (api_client.py),     *)
(* try_handle_add_command (file_operations.py)                             *)

\* What the user types: a plain request, and one holding an MCP keyword
UserMessages == { << "f", "i", "x" >>, << "D", "o", "c", "s" >> }

\* query_ai(user_message): it returns a text or it raises
QueryAiResults ==
    { [raised |-> "", value |-> << "o", "k" >>],
      [raised |-> "Exception", value |-> << >>] }

\* lines 321-322: the loop starts
StartLoop(history) ==
    /\ conversation_history' = history
    /\ iteration' = 0
    /\ consecutive_trivial_iterations' = 0
    /\ pc' = "loop"
    /\ outcome' = NoOutcome
    /\ console' = {}
    /\ run_log' = << >>

\* UserMessage with the compaction made before the user entry is appended
UserMessage_TrimFirst(user_message) ==
    /\ pc = "idle"
    /\ turns < MaxTurns
    /\ clock + max_iterations <= MaxRequests
    /\ turns' = turns + 1
    /\ history_before' = conversation_history
    /\ LET history == Append(trim_conversation_history(conversation_history),
                             Message("user", Str(user_message), << >>, ""))
       IN  IF should_use_mcp(user_message)
           THEN \E answer \in QueryAiResults :
                   IF answer.raised = ""
                   THEN /\ conversation_history' =
                              Append(history,
                                     Message("assistant", Str(answer.value), << >>, ""))
                        /\ outcome' = [success |-> TRUE]
                        /\ console' = {"mcp_completed"}
                        /\ run_log' = << >>
                        /\ UNCHANGED << pc, iteration, consecutive_trivial_iterations >>
                   ELSE StartLoop(history)
           ELSE StartLoop(history)
    /\ UNCHANGED << files, formatted_tool_calls, exec_index, clock, stream, accVars,
                    configVars, mcpVars, edit_args, files_before >>

\* stream_openai_response(user_message), up to the first iteration of the loop
UserMessage(user_message) ==
    /\ pc = "idle"
    /\ turns < MaxTurns
    /\ clock + max_iterations <= MaxRequests
    /\ turns' = turns + 1
    /\ history_before' = conversation_history
    /\ LET history == trim_conversation_history(
                          Append(conversation_history,
                                 Message("user", Str(user_message), << >>, "")))
       IN  IF should_use_mcp(user_message)
           THEN \E answer \in QueryAiResults :
                   IF answer.raised = ""
                   THEN /\ conversation_history' =
                              Append(history,
                                     Message("assistant", Str(answer.value), << >>, ""))
                        /\ outcome' = [success |-> TRUE]
                        /\ console' = {"mcp_completed"}
                        /\ run_log' = << >>
                        /\ UNCHANGED << pc, iteration, consecutive_trivial_iterations >>
                   ELSE StartLoop(history)
           ELSE StartLoop(history)
    /\ UNCHANGED << files, formatted_tool_calls, exec_index, clock, stream, accVars,
                    configVars, mcpVars, edit_args, files_before >>

\* AddCommand with the file entry put right after the system prompt
AddCommand_AtFront(path) ==
    /\ pc = "idle"
    /\ turns < MaxTurns
    /\ Len(SelectSeq(conversation_history, LAMBDA msg : msg.role = "system")) <= MaxAdds
    /\ LET normalized_path == normalize_path(path)
           rd == read_local_file(files, normalized_path)
       IN  conversation_history' =
               IF rd.raised = ""
               THEN << Head(conversation_history),
                       Message("system",
                               Str(FileMarker(normalized_path) \o << ":\n\n" >> \o rd.value),
                               << >>, "") >>
                        \o Tail(conversation_history)
               ELSE conversation_history
    /\ UNCHANGED << files, pc, iteration, consecutive_trivial_iterations,
                    formatted_tool_calls, exec_index, outcome, console, clock, stream,
                    run_log, turns, accVars, configVars, mcpVars, editVars >>

\* try_handle_add_command("/add <path>") for the path of a file
AddCommand(path) ==
    /\ pc = "idle"
    /\ turns < MaxTurns
    /\ Len(SelectSeq(conversation_history, LAMBDA msg : msg.role = "system")) <= MaxAdds
    /\ LET normalized_path == normalize_path(path)
           rd == read_local_file(files, normalized_path)
       IN  conversation_history' =
               IF rd.raised = ""
               THEN Append(conversation_history,
                           Message("system",
                                   Str(FileMarker(normalized_path) \o << ":\n\n" >> \o rd.value),
                                   << >>, ""))
               ELSE conversation_history
    /\ UNCHANGED << files, pc, iteration, consecutive_trivial_iterations,
                    formatted_tool_calls, exec_index, outcome, console, clock, stream,
                    run_log, turns, accVars, configVars, mcpVars, editVars >>

----------------------------------------------------------------------------
(* Spec: a session of user turns against a scripted endpoint *)

\* The responses the endpoint can stream
TextOk == << "o", "k" >>
ScriptedStreams ==
    { \* a final answer
      << ContentChunk(TextOk) >>,
      \* reasoning, then whitespace-only text and no tool call
      << ReasoningChunk(<< "h", "m" >>), ContentChunk(<< " " >>) >>,
      \* text, then a whitespace-only edit whose name arrives in two parts
      << ContentChunk(TextOk),
         ToolChunk(<< Delta(0, "c1", << "e", "d", "i", "t" >>, "") >>),
         ToolChunk(<< Delta(0, "", << "_", "f", "i", "l", "e" >>, ArgsEditSpace) >>) >>,
      \* two calls, the later index first and index 0 never sent: a read
      \* whose arguments arrive in a second fragment, and an edit that
      \* changes the text, without an id
      << ToolChunk(<< Delta(2, "", EDIT_FILE, ArgsEditReal),
                      Delta(1, "c2", READ_FILE, "") >>),
         ToolChunk(<< Delta(1, "", << >>, ArgsReadA) >>) >>,
      \* fragments that never carry a name
      << ToolChunk(<< Delta(1, "c1", << >>, ArgsReadA) >>) >>,
      \* edit_file whose arguments decode to a list
      << ToolChunk(<< Delta(0, "c1", EDIT_FILE, ArgsArray) >>) >> }

InitialFiles == [k \in {"/cwd/a.txt"} |-> << "a", "b" >>]

Init ==
    /\ conversation_history = InitialHistory
    /\ files = InitialFiles
    /\ pc = "idle"
    /\ max_iterations \in 1..MaxCap
    /\ supports_reasoning = TRUE
    /\ ManagerAtStart
    /\ iteration = 0
    /\ consecutive_trivial_iterations = 0
    /\ reasoning_content = << >>
    /\ final_content = << >>
    /\ tool_calls = << >>
    /\ formatted_tool_calls = << >>
    /\ exec_index = 0
    /\ outcome = NoOutcome
    /\ console = {}
    /\ clock = 0
    /\ stream = << >>
    /\ run_log = << >>
    /\ turns = 0
    /\ edit_args = NoEdit
    /\ files_before = InitialFiles
    /\ history_before = InitialHistory

Next ==
    \/ \E user_message \in UserMessages : UserMessage(user_message)
    \/ \E path \in Paths : AddCommand(path)
    \/ LoopHead
    \/ RequestFails
    \/ \E chunks \in ScriptedStreams : StreamResponse(chunks)
    \/ StreamFails
    \/ Decide
    \/ ExecTool

Spec == Init /\ [][Next]_vars

----------------------------------------------------------------------------
(* StreamSpec: one request of the loop, its response streamed chunk by     *)
(* chunk from every small sequence of chunks                               *)

\* The parts a fragment can carry: an id, a piece of the name read_file, or
\* a piece of the argument text {"file_path":"a.txt"}
FragmentParts ==
    { [id |-> "",   name |-> << >>, arguments |-> ""],
      [id |-> "c1", name |-> << >>, arguments |-> ""],
      [id |-> "c2", name |-> << >>, arguments |-> ""],
      [id |-> "",   name |-> << "r", "e", "a", "d" >>, arguments |-> ""],
      [id |-> "",   name |-> << "_", "f", "i", "l", "e" >>, arguments |-> ""],
      [id |-> "",   name |-> << >>, arguments |-> "{\"file_path\":"],
      [id |-> "",   name |-> << >>, arguments |-> "\"a.txt\"}"] }

\* The indices fragments are sent at
FragmentIndices == {0, 1}

StreamDeltas ==
    { Delta(i, part.id, part.name, part.arguments) :
          i \in FragmentIndices, part \in FragmentParts }
    \cup { Delta(NoIndex, "c1", << "r", "e", "a", "d" >>, "{\"file_path\":") }

StreamChunks ==
    { ToolChunk(<< d >>) : d \in StreamDeltas }
    \cup { \* two fragments in one chunk
           ToolChunk(<< Delta(1, "c2", READ_FILE, ""), Delta(0, "c1", READ_FILE, ArgsReadA) >>),
           ContentChunk(TextOk),
           ContentChunk(<< " " >>),
           ReasoningChunk(<< "h", "m" >>),
           \* text and a fragment in the same chunk
           Chunk(<< >>, TextOk, << Delta(0, "", << "r", "e", "a", "d" >>, "") >>),
           \* reasoning text and content text in the same chunk
           Chunk(<< "h", "m" >>, TextOk, << >>) }

StreamInit ==
    /\ conversation_history =
           Append(InitialHistory, Message("user", Str(<< "f", "i", "x" >>), << >>, ""))
    /\ files = InitialFiles
    /\ pc = "streaming"
    /\ max_iterations = 1
    /\ supports_reasoning \in BOOLEAN
    /\ ManagerAtStart
    /\ iteration = 1
    /\ consecutive_trivial_iterations = 0
    /\ reasoning_content = << >>
    /\ final_content = << >>
    /\ tool_calls = << >>
    /\ formatted_tool_calls = << >>
    /\ exec_index = 0
    /\ outcome = NoOutcome
    /\ console = {}
    /\ clock = 1
    /\ stream = << >>
    /\ run_log = << Event("request", "") >>
    /\ turns = 1
    /\ edit_args = NoEdit
    /\ files_before = InitialFiles
    /\ history_before = InitialHistory

StreamNext ==
    \/ \E chunk \in StreamChunks : StreamChunk(chunk)
    \/ StreamEnd
    \/ Decide
    \/ ExecTool
    \/ LoopHead

StreamSpec == StreamInit /\ [][StreamNext]_vars

----------------------------------------------------------------------------
(* Properties of the reassembly (StreamSpec) *)

\* A chunk that is a tool-call fragment event: its delta carries no text
TextFree(chunk) == chunk.content = << >> /\ chunk.reasoning_content = << >>

RECURSIVE Fragments(_)
\* The tool-call fragments of a stream, in arrival order
Fragments(chunks) ==
    IF chunks = << >> THEN << >>
    ELSE (IF TextFree(Head(chunks)) THEN Head(chunks).tool_calls ELSE << >>)
             \o Fragments(Tail(chunks))

RECURSIVE NamePartsAt(_, _)
\* The name parts of the fragments of index i, concatenated in arrival order
NamePartsAt(fragments, i) ==
    IF fragments = << >> THEN << >>
    ELSE (IF Head(fragments).index = i THEN Head(fragments).name ELSE << >>)
             \o NamePartsAt(Tail(fragments), i)

RECURSIVE ArgumentPartsAt(_, _)
\* The argument parts of the fragments of index i, concatenated in arrival order
ArgumentPartsAt(fragments, i) ==
    IF fragments = << >> THEN ""
    ELSE (IF Head(fragments).index = i THEN Head(fragments).arguments ELSE "")
             \o ArgumentPartsAt(Tail(fragments), i)

NamedSlots == { i \in 1..Len(tool_calls) : tool_calls[i].function.name # << >> }

\* The k-th named position, in increasing order
KthNamedSlot(k) ==
    CHOOSE i \in NamedSlots : Cardinality({ j \in NamedSlots : j < i }) = k - 1

ExecEvents == SelectSeq(run_log, LAMBDA e : e.ev = "exec")

\* C9: once the stream has ended and the loop has built its assistant entry,
\* the tool calls recorded in that entry are exactly the accumulated calls
\* with a non-empty name, in increasing index order; calls with an empty name
\* are in no entry, and the calls executed are calls of the entry, in order.
C9_NamedCallsKeptInIndexOrder ==
    pc \in {"exec", "loop", "idle", "crashed"} =>
        /\ Len(formatted_tool_calls) = Cardinality(NamedSlots)
        /\ \A k \in 1..Len(formatted_tool_calls) :
              /\ formatted_tool_calls[k].function = tool_calls[KthNamedSlot(k)].function
              /\ formatted_tool_calls[k].function.name # << >>
        /\ \A n \in 1..Len(conversation_history) :
              conversation_history[n].role = "assistant"
                  => conversation_history[n].tool_calls = formatted_tool_calls
        /\ NamedSlots # {} =>
              \E n \in 1..Len(conversation_history) :
                  /\ conversation_history[n].role = "assistant"
                  /\ conversation_history[n].tool_calls = formatted_tool_calls
        /\ Len(ExecEvents) <= Len(formatted_tool_calls)
        /\ \A k \in 1..Len(ExecEvents) : ExecEvents[k].id = formatted_tool_calls[k].id

\* C9 witness: slot 0 was allocated as a placeholder and never named, slot 1
\* holds read_file; the batch of one call has been executed
C9_Witness ==
    /\ pc = "loop"
    /\ Len(tool_calls) = 2
    /\ tool_calls[1].function.name = << >>
    /\ tool_calls[2].function.name = READ_FILE
    /\ Len(formatted_tool_calls) = 1
    /\ Len(ExecEvents) = 1

----------------------------------------------------------------------------
(* Properties of the loop (Spec) *)

Running == pc \in {"loop", "streaming", "decide", "exec"}

\* The number of events of one kind in a log of the current run
CountIn(log, ev) == Len(SelectSeq(log, LAMBDA e : e.ev = ev))

\* What each completed response of the current run led to
Verdicts == SelectSeq(run_log, LAMBDA e : e.ev \in {"assistant", "nothing"})

\* The current run has returned to its caller
RunReturned == pc = "idle" /\ run_log # << >> /\ run_log[Len(run_log)].ev = "return"

Occurrences(seq, x) == Cardinality({ k \in DOMAIN seq : seq[k] = x })

IsPermutation(s, t) ==
    /\ Len(s) = Len(t)
    /\ \A k \in DOMAIN s : Occurrences(s, s[k]) = Occurrences(t, s[k])

\* The assistant entry at position n is followed at once by exactly one tool
\* entry per call it declares, their ids a permutation of the declared ids
AnsweredAt(history, n) ==
    LET N == Len(history[n].tool_calls) IN
        /\ n + N <= Len(history)
        /\ \A k \in 1..N : history[n + k].role = "tool"
        /\ IsPermutation([k \in 1..N |-> history[n].tool_calls[k].id],
                         [k \in 1..N |-> history[n + k].tool_call_id])
        /\ n + N + 1 <= Len(history) => history[n + N + 1].role # "tool"

Paired(history) ==
    \A n \in 1..Len(history) :
        (history[n].role = "assistant" /\ history[n].tool_calls # << >>)
            => AnsweredAt(history, n)

\* C1: whenever the loop has issued a model request or has returned, every
\* assistant entry of the transcript that declares N >= 1 tool calls is
\* followed, before any further assistant entry, by exactly N tool entries
\* whose ids are a permutation of the declared ids.
C1_ToolCallsAnsweredAtRequestAndReturn ==
    (pc = "streaming" \/ RunReturned) => Paired(conversation_history)

\* An assistant entry has tool calls and no content, or no tool calls and a
\* non-blank content
ValidAssistantShape(msg) ==
    \/ msg.tool_calls # << >> /\ msg.content = None
    \/ msg.tool_calls = << >> /\ ~msg.content.none /\ PyStrip(msg.content.s) # << >>

\* C2: every assistant entry the loop appends has a non-empty tool-call
\* list and null content, or an empty tool-call list and non-blank content;
\* the content is null with tool calls even when the response carried text.
C2_AssistantEntryShape ==
    [][Running =>
          \A n \in (Len(conversation_history) + 1)..Len(conversation_history') :
              conversation_history'[n].role = "assistant"
                  => ValidAssistantShape(conversation_history'[n])]_vars

\* C2 witness: a response with the text "ok" and an edit_file call has been
\* recorded as an entry with the call and null content
C2_Witness ==
    /\ pc = "exec"
    /\ final_content = TextOk
    /\ conversation_history[Len(conversation_history)].role = "assistant"
    /\ conversation_history[Len(conversation_history)].tool_calls # << >>
    /\ conversation_history[Len(conversation_history)].content = None

EveryResponseNonTrivial ==
    /\ Verdicts # << >>
    /\ \A k \in 1..Len(Verdicts) : Verdicts[k] = Event("assistant", "nontrivial")

\* C4 as stated: with cap M and every request answered by a non-trivial tool
\* call, the run makes exactly M requests, executes exactly M batches and
\* returns an outcome with success true that carries an incomplete indicator.
C4_OutcomeCarriesIncomplete ==
    (RunReturned /\ EveryResponseNonTrivial) =>
        /\ CountIn(run_log, "request") = max_iterations
        /\ CountIn(run_log, "batch") = max_iterations
        /\ outcome.success
        /\ DOMAIN outcome # {"success"}

\* C4: with cap M and every request answered by a non-trivial tool call,
\* the run makes exactly M requests, executes exactly M batches and returns
\* the outcome {success: true}; that the task may be incomplete is told by
\* the max-iterations line on the console, not by the outcome.
C4_CapStopsAfterMBatches ==
    (RunReturned /\ EveryResponseNonTrivial) =>
        /\ CountIn(run_log, "request") = max_iterations
        /\ CountIn(run_log, "batch") = max_iterations
        /\ outcome = [success |-> TRUE]
        /\ "max_iterations" \in console

\* C4 witness: a run with cap 3 has returned after three non-trivial batches
C4_Witness ==
    /\ RunReturned
    /\ EveryResponseNonTrivial
    /\ max_iterations = 3
    /\ CountIn(run_log, "batch") = 3

\* The responses k-2, k-1 and k of the current run were batches judged trivial
TrivialTripleAt(k) ==
    \A j \in (k - 2)..k : Verdicts[j] = Event("assistant", "trivial")

\* C5: when three consecutive iterations of a run each propose a batch
\* judged trivial, the run returns a successful outcome at the third, whose
\* batch is not executed, and no fourth request is issued.
C5_ThreeTrivialBatchesStop ==
    \A k \in 3..Len(Verdicts) :
        TrivialTripleAt(k) =>
            /\ k = Len(Verdicts)
            /\ RunReturned
            /\ outcome = [success |-> TRUE]
            /\ run_log[Len(run_log) - 1] = Event("assistant", "trivial")
            /\ CountIn(run_log, "request") = k
            /\ CountIn(run_log, "batch") + CountIn(run_log, "nothing") = k - 1

\* C5 witness: with cap 4, a run has returned after its third trivial batch,
\* having made three requests and executed two batches
C5_Witness ==
    /\ RunReturned
    /\ max_iterations = 4
    /\ Len(Verdicts) = 3
    /\ TrivialTripleAt(3)
    /\ CountIn(run_log, "batch") = 2

\* The last event of the run is a failure of the model endpoint
EndpointFailed ==
    /\ run_log # << >>
    /\ run_log[Len(run_log)] \in { Event("raise", "APIConnectionError"),
                                   Event("raise", "APIError") }

\* C6: when the model endpoint is unreachable or its response is malformed,
\* the loop returns an outcome with success false and an error description;
\* the failure does not escape the loop.
C6_EndpointFailureIsReturned ==
    EndpointFailed =>
        /\ pc = "idle"
        /\ DOMAIN outcome = {"success", "error"}
        /\ ~outcome.success

----------------------------------------------------------------------------
(* LiveSpec: the last user turn of a session, with the loop's code always  *)
(* running on: once a run has started, its next step is taken (the loop is *)
(* sequential code and each response stream is finite)                     *)

LiveInit ==
    /\ conversation_history = InitialHistory
    /\ files = InitialFiles
    /\ pc = "idle"
    /\ max_iterations \in 1..MaxCap
    /\ supports_reasoning \in BOOLEAN
    /\ ManagerAtStart
    /\ iteration = 0
    /\ consecutive_trivial_iterations = 0
    /\ reasoning_content = << >>
    /\ final_content = << >>
    /\ tool_calls = << >>
    /\ formatted_tool_calls = << >>
    /\ exec_index = 0
    /\ outcome = NoOutcome
    /\ console = {}
    /\ clock = 0
    /\ stream = << >>
    /\ run_log = << >>
    /\ turns = MaxTurns - 1
    /\ edit_args = NoEdit
    /\ files_before = InitialFiles
    /\ history_before = InitialHistory

LoopStep ==
    \/ LoopHead
    \/ RequestFails
    \/ \E chunks \in ScriptedStreams : StreamResponse(chunks)
    \/ StreamFails
    \/ Decide
    \/ ExecTool

LiveSpec == LiveInit /\ [][Next]_vars /\ WF_vars(LoopStep)

\* C7: for any cap M >= 1 and any behaviour of the endpoint, a run ends, and
\* it issues at most M model requests.
C7_RunEndsWithinCap ==
    /\ [](CountIn(run_log, "request") <= max_iterations)
    /\ Running ~> ~Running

\* C7 witness: a run with cap 4 has returned after issuing its four requests
C7_Witness ==
    /\ RunReturned
    /\ max_iterations = MaxCap
    /\ CountIn(run_log, "request") = MaxCap

----------------------------------------------------------------------------
(* TrimSpec: a user message arrives in a session whose transcript is long. *)
(* The transcript is the system prompt followed by a few blocks, each the  *)
(* entries one piece of a session leaves behind.                           *)

\* blocks in a transcript of TrimSpec
MaxBlocks == 5

BlockKinds == {"text", "one", "two", "run", "add"}

FileEntryText == FileMarker(normalize_path("a.txt")) \o << ":\n\n", "a", "b" >>

UserEntry == Message("user", Str(<< "f", "i", "x" >>), << >>, "")
TextEntry == Message("assistant", Str(TextOk), << >>, "")
CallsEntry(ids) ==
    Message("assistant", None,
            [k \in 1..Len(ids) |-> ToolCall(ids[k], READ_FILE, ArgsReadA)], "")
ToolEntry(id) == Message("tool", Str(FileEntryText), << >>, id)

\* The entries of block number b, of the given kind
BlockEntries(kind, b) ==
    LET id(k) == "b" \o ToString(b) \o "c" \o ToString(k) IN
    CASE kind = "text" -> << UserEntry, TextEntry >>
      [] kind = "one"  -> << UserEntry, CallsEntry(<< id(1) >>), ToolEntry(id(1)) >>
      [] kind = "two"  -> << UserEntry, CallsEntry(<< id(1), id(2) >>),
                             ToolEntry(id(1)), ToolEntry(id(2)) >>
      [] kind = "run"  -> << UserEntry, CallsEntry(<< id(1), id(2) >>),
                             ToolEntry(id(1)), ToolEntry(id(2)),
                             CallsEntry(<< id(3) >>), ToolEntry(id(3)), TextEntry >>
      [] kind = "add"  -> << Message("system", Str(FileEntryText), << >>, "") >>
      [] kind = "dir"  -> << Message("system", Str(FileEntryText), << >>, ""),
                             Message("system", Str(FileEntryText), << >>, ""),
                             Message("system", Str(FileEntryText), << >>, "") >>

RECURSIVE BlocksFrom(_, _)
BlocksFrom(kinds, b) ==
    IF b > Len(kinds) THEN << >>
    ELSE BlockEntries(kinds[b], b) \o BlocksFrom(kinds, b + 1)

LongHistories ==
    { InitialHistory \o BlocksFrom(kinds, 1) :
          kinds \in UNION { [1..n -> BlockKinds] : n \in 0..MaxBlocks } }

TrimInit ==
    /\ conversation_history \in LongHistories
    /\ history_before = conversation_history
    /\ files = InitialFiles
    /\ pc = "idle"
    /\ max_iterations = 1
    /\ supports_reasoning = TRUE
    /\ ManagerAtStart
    /\ iteration = 0
    /\ consecutive_trivial_iterations = 0
    /\ reasoning_content = << >>
    /\ final_content = << >>
    /\ tool_calls = << >>
    /\ formatted_tool_calls = << >>
    /\ exec_index = 0
    /\ outcome = NoOutcome
    /\ console = {}
    /\ clock = 0
    /\ stream = << >>
    /\ run_log = << >>
    /\ turns = 0
    /\ edit_args = NoEdit
    /\ files_before = InitialFiles

TrimNext ==
    \/ \E user_message \in UserMessages : UserMessage(user_message)
    \/ \E path \in Paths : AddCommand(path)

TrimSpec == TrimInit /\ [][TrimNext]_vars

----------------------------------------------------------------------------
(* Properties of the compaction (TrimSpec) *)

\* The transcript the last user message left, without the answer appended
\* after it when the message was answered on the MCP path
AfterTrim(history, at) == IF at = "idle" THEN SubSeq(history, 1, Len(history) - 1)
                          ELSE history

\* Every tool entry is preceded by an assistant entry declaring its id
OrphanFree(history) ==
    \A n \in 1..Len(history) :
        history[n].role = "tool" =>
            \E m \in 1..(n - 1) :
                /\ history[m].role = "assistant"
                /\ \E k \in 1..Len(history[m].tool_calls) :
                       history[m].tool_calls[k].id = history[n].tool_call_id

\* C12: after the compaction that a user message triggers, every tool entry
\* retained in the transcript is preceded by the assistant entry that
\* declared its tool_call_id.
C12_NoOrphanToolEntryAfterTrim ==
    [][(turns' = turns + 1 /\ OrphanFree(conversation_history))
           => OrphanFree(conversation_history')]_vars

\* The k-th smallest element of a set of positions
KthOf(S, k) == CHOOSE i \in S : Cardinality({ j \in S : j < i }) = k - 1

\* r is what the claim says trim makes of t
IsTrimOf(t, r) ==
    IF Len(t) <= 20 THEN r = t
    ELSE LET sys  == { i \in 1..Len(t) : t[i].role = "system" }
             oth  == { i \in 1..Len(t) : t[i].role # "system" }
             ns   == Cardinality(sys)
             no   == Cardinality(oth)
             keep == IF no <= 15 THEN no ELSE 15
         IN  /\ Len(r) = ns + keep
             /\ \A j \in 1..ns : r[j] = t[KthOf(sys, j)]
             /\ \A j \in 1..keep : r[ns + j] = t[KthOf(oth, no - keep + j)]

\* C13: trim leaves a transcript of at most 20 entries unchanged; a longer
\* one becomes its system entries in their order followed by its non-system
\* entries in their order, all of them if they are at most 15 and otherwise
\* the 15 most recent.
C13_TrimKeepsSystemAndRecent ==
    [][turns' = turns + 1 =>
          \E user_message \in UserMessages :
              IsTrimOf(Append(conversation_history,
                              Message("user", Str(user_message), << >>, "")),
                       AfterTrim(conversation_history', pc'))]_vars

\* C13 witness: a transcript of 3 system entries and more than 15 others
\* was compacted to the 3 system entries followed by 15 entries, the system
\* entries having been apart in it
C13_Witness ==
    /\ turns = 1
    /\ pc = "loop"
    /\ Len(history_before) > 20
    /\ Len(conversation_history) = 18
    /\ \A j \in 1..3 : conversation_history[j].role = "system"
    /\ history_before[2].role # "system"
    /\ \A j \in 4..18 : conversation_history[j].role # "system"

\* C14: in every state of a session the first transcript entry is the
\* system-prompt entry the session was seeded with.
C14_SystemPromptStaysFirst ==
    /\ Len(conversation_history) >= 1
    /\ conversation_history[1] = Message("system", Str(system_PROMPT), << >>, "")

\* C14 witness: a user message has compacted a transcript of more than 20
\* entries that held other system entries too
C14_Witness ==
    /\ turns = 1
    /\ Len(history_before) > 20
    /\ Len(conversation_history) < Len(history_before)
    /\ conversation_history[2].role = "system"

----------------------------------------------------------------------------
(* ExecSpec: the for loop over one batch (api_client.py, lines 453-478),   *)
(* for every small batch, on several file systems and transcripts          *)

\* longest batch of ExecSpec
MaxBatch == 2

\* Tool names the executor does not know, without and with an underscore
FOO == << "f", "o", "o" >>
GET_PRICE == << "g", "e", "t", "_", "p", "r", "i", "c", "e" >>

\* An argument text cut short: json.loads raises on it
ArgsBroken == "{\"file_path\":"

ExecNames == {READ_FILE, CREATE_FILE, EDIT_FILE, FOO, GET_PRICE}
ExecArguments == {ArgsReadA, ArgsCreateA, ArgsEditReal, ArgsEmptyObj, ArgsArray, ArgsBroken}

\* The calls that reach the for loop: an edit_file call whose arguments
\* decode to a list makes _is_trivial_iteration raise before it (line 441)
ExecCalls ==
    { c \in [name : ExecNames, arguments : ExecArguments] :
          ~(c.name = EDIT_FILE /\ c.arguments = ArgsArray) }

ExecBatches ==
    { [k \in 1..Len(b) |-> ToolCall("c" \o ToString(k), b[k].name, b[k].arguments)] :
          b \in UNION { [1..n -> ExecCalls] : n \in 1..MaxBatch } }

\* a.txt is missing, or holds the snippet "a" zero times, once or twice
ExecFileSystems ==
    { [k \in {} |-> << >>] } \cup
    { [k \in {normalize_path("a.txt")} |-> c] :
          c \in { << "b" >>, << "a", "b" >>, << "a", "a" >> } }

\* The transcript before the batch's assistant entry: a fresh session, a
\* session in which a.txt was added with /add, and a run whose previous
\* iteration read a.txt
ExecPrefixes ==
    { InitialHistory \o << UserEntry >>,
      InitialHistory \o << Message("system", Str(FileEntryText), << >>, ""), UserEntry >>,
      InitialHistory \o << UserEntry, CallsEntry(<< "c0" >>), ToolEntry("c0") >> }

ExecInit ==
    /\ formatted_tool_calls \in ExecBatches
    /\ tool_calls = formatted_tool_calls
    /\ \E prefix \in ExecPrefixes :
          conversation_history =
              Append(prefix, AssistantWithTools(<< >>, formatted_tool_calls))
    /\ history_before = conversation_history
    /\ files \in ExecFileSystems
    /\ files_before = files
    /\ pc = "exec"
    /\ exec_index = 1
    /\ max_iterations = 2
    /\ iteration = 1
    /\ consecutive_trivial_iterations = 0
    /\ supports_reasoning = TRUE
    /\ ManagerAtStart
    /\ reasoning_content = << >>
    /\ final_content = << >>
    /\ outcome = NoOutcome
    /\ console = {}
    /\ clock = 1
    /\ stream = << >>
    /\ run_log = << Event("request", ""), Event("response", ""),
                    Event("assistant", "nontrivial") >>
    /\ turns = 1
    /\ edit_args = NoEdit

ExecNext ==
    \/ ExecTool
    \/ LoopHead

ExecSpec == ExecInit /\ [][ExecNext]_vars

----------------------------------------------------------------------------
(* Properties of the execution of a batch (ExecSpec) *)

\* The tool entries appended since the batch's assistant entry
ToolEntriesOfBatch ==
    SelectSeq(SubSeq(conversation_history, Len(history_before) + 1,
                     Len(conversation_history)),
              LAMBDA msg : msg.role = "tool")

\* The result text of the k-th call executed
ResultText(k) == ToolEntriesOfBatch[k].content.s

\* The first call of the batch has just been executed
FirstCallDone == exec_index = 2 /\ pc \in {"exec", "loop"}

FirstCall == formatted_tool_calls[1].function

TargetKey == normalize_path("a.txt")

\* The first call is edit_file(a.txt, "a", "b") and a.txt can be read
FirstCallEditsReadableFile ==
    /\ FirstCall.name = EDIT_FILE
    /\ FirstCall.arguments = ArgsEditReal
    /\ TargetKey \in DOMAIN files_before

\* How many times the snippet "a" occurs in a.txt before the batch
SnippetOccurrences ==
    Cardinality(OccurrencePositions(files_before[TargetKey], << "a" >>))

IsEditSuccessText(text) == text[1] = "Successfully edited file '"

\* C11: the result text of an edit_file call is an error, not a success
\* confirmation, when the original snippet occurs 0 times or 2 or more
\* times, and it is a success confirmation only when the replacement was
\* written to the file.
C11_EditResultReportsOutcome ==
    (FirstCallDone /\ FirstCallEditsReadableFile) =>
        /\ SnippetOccurrences = 0 => ~IsEditSuccessText(ResultText(1))
        /\ SnippetOccurrences >= 2 => ~IsEditSuccessText(ResultText(1))
        /\ IsEditSuccessText(ResultText(1)) =>
              /\ SnippetOccurrences = 1
              /\ files[TargetKey] =
                     ReplacedAt(files_before[TargetKey],
                                CHOOSE i \in OccurrencePositions(files_before[TargetKey],
                                                                 << "a" >>) : TRUE,
                                << "a" >>, << "b" >>)

\* f"Error: Could not read file '{file_path}' for editing"
CouldNotReadText == << "Error: Could not read file '", "a.txt", "' for editing" >>

\* C20: when edit_file is executed for a file that can be read, the context
\* step succeeds whatever the transcript holds and the edit is attempted
\* (the result is the edit's own, and a snippet that occurs once is
\* replaced); the context step's only error is the could-not-read text,
\* produced exactly when the file cannot be loaded.
C20_ContextStepOnlyFailsOnUnreadableFile ==
    (/\ FirstCallDone
     /\ FirstCall.name = EDIT_FILE
     /\ FirstCall.arguments = ArgsEditReal)
    =>
    IF TargetKey \in DOMAIN files_before
    THEN /\ ResultText(1) # CouldNotReadText
         /\ ResultText(1)[1] # "Error executing "
         /\ SnippetOccurrences = 1 => files[TargetKey] = << "b", "b" >>
    ELSE ResultText(1) = CouldNotReadText

KnownNames ==
    {READ_FILE, READ_MULTIPLE_FILES, CREATE_FILE, CREATE_MULTIPLE_FILES, EDIT_FILE}

McpDisabledText ==
    << "Error: Legacy MCP tool execution disabled. Using Pydantic AI agent instead." >>

\* The first call was executed without a raise and without touching a file
FirstCallAnsweredOnly ==
    /\ Len(ToolEntriesOfBatch) = 1
    /\ ToolEntriesOfBatch[1].tool_call_id = formatted_tool_calls[1].id
    /\ files = files_before
    /\ pc = (IF Len(formatted_tool_calls) = 1 THEN "loop" ELSE "exec")

\* C17 as stated: for every tool name outside the five known names, with or
\* without an underscore, the executor returns the unknown-function error
\* text and raises nothing, so the batch goes on.
C17_UnknownNameGetsUnknownFunction ==
    (FirstCallDone /\ FirstCall.name \notin KnownNames) =>
        /\ ResultText(1) = << "Unknown function: " >> \o FirstCall.name
        /\ FirstCallAnsweredOnly

\* C17: for every tool name outside the five known names the executor raises
\* nothing and returns an error text, so the batch goes on: the
\* error-executing text when the arguments do not decode, else the
\* MCP-disabled text when the name holds an underscore, else the
\* unknown-function text.
C17_UnknownNameGetsErrorText ==
    (FirstCallDone /\ FirstCall.name \notin KnownNames) =>
        /\ ResultText(1) =
               IF FirstCall.arguments = ArgsBroken
               THEN << "Error executing " >> \o FirstCall.name \o << ": ", "JSONDecodeError" >>
               ELSE IF \E i \in 1..Len(FirstCall.name) : FirstCall.name[i] = "_"
               THEN McpDisabledText
               ELSE << "Unknown function: " >> \o FirstCall.name
        /\ FirstCallAnsweredOnly

\* C17 witness: a batch of get_price and foo has been executed; the first
\* result is the MCP-disabled text, the second the unknown-function text
C17_Witness ==
    /\ pc = "loop"
    /\ Len(formatted_tool_calls) = 2
    /\ FirstCall.name = GET_PRICE
    /\ formatted_tool_calls[2].function.name = FOO
    /\ formatted_tool_calls[2].function.arguments = ArgsArray
    /\ ResultText(1) = McpDisabledText
    /\ ResultText(2) = << "Unknown function: " >> \o FOO

\* The batch is create_file(a.txt, "ab") followed by read_file(a.txt)
CreateThenRead ==
    /\ Len(formatted_tool_calls) = 2
    /\ FirstCall = [name |-> CREATE_FILE, arguments |-> ArgsCreateA]
    /\ formatted_tool_calls[2].function = [name |-> READ_FILE, arguments |-> ArgsReadA]

\* The batch is edit_file(a.txt, "a", "b") followed by read_file(a.txt)
EditThenRead ==
    /\ Len(formatted_tool_calls) = 2
    /\ FirstCall = [name |-> EDIT_FILE, arguments |-> ArgsEditReal]
    /\ formatted_tool_calls[2].function = [name |-> READ_FILE, arguments |-> ArgsReadA]

\* The result of read_file(a.txt) when a.txt holds the given content
ReadResultOf(content) == << "Content of file '", TargetKey, "'", ":\n\n" >> \o content

\* C16: the calls of a batch are executed one at a time in their order: the
\* i-th tool entry appended carries the id of the i-th call, and a create
\* or an edit of a file is in place when a later read of that file in the
\* same batch runs.
C16_BatchRunsInOrder ==
    /\ pc \in {"exec", "loop"} => Len(ToolEntriesOfBatch) = exec_index - 1
    /\ \A i \in 1..Len(ToolEntriesOfBatch) :
           ToolEntriesOfBatch[i].tool_call_id = formatted_tool_calls[i].id
    /\ (CreateThenRead /\ pc = "loop") =>
           ResultText(2) = ReadResultOf(<< "a", "b" >>)
    /\ (EditThenRead /\ pc = "loop" /\ IsEditSuccessText(ResultText(1))
            /\ files_before[TargetKey] = << "a", "b" >>) =>
           ResultText(2) = ReadResultOf(<< "b", "b" >>)

\* C16 witness: a batch that creates a.txt, which did not exist, and then
\* reads it has been executed, and the read returned the new content
C16_Witness ==
    /\ CreateThenRead
    /\ pc = "loop"
    /\ TargetKey \notin DOMAIN files_before
    /\ ToolEntriesOfBatch[1].tool_call_id = "c1"
    /\ ToolEntriesOfBatch[2].tool_call_id = "c2"
    /\ ResultText(2) = ReadResultOf(<< "a", "b" >>)

\* The first call of the batch fails: its arguments do not decode, its
\* tool is unknown, its file is missing, or its edit is ambiguous
FirstCallFails ==
    \/ FirstCall.arguments = ArgsBroken
    \/ FirstCall.name \notin KnownNames
    \/ /\ FirstCall = [name |-> READ_FILE, arguments |-> ArgsReadA]
       /\ TargetKey \notin DOMAIN files_before
    \/ /\ FirstCall = [name |-> EDIT_FILE, arguments |-> ArgsEditReal]
       /\ TargetKey \notin DOMAIN files_before
    \/ /\ FirstCallEditsReadableFile
       /\ SnippetOccurrences >= 2

IsErrorText(text) ==
    text[1] \in { "Error executing ", "Error: Could not read file '",
                  "Unknown function: ", McpDisabledText[1] }

\* C15: in a batch of N calls, a failure of a call is recorded as an
\* error-text tool entry for that call and the later calls are still
\* executed: every result is a string, and the batch has yielded exactly N
\* tool entries, one per call, when the next request is issued.
C15_FailedCallDoesNotStopBatch ==
    /\ pc \in {"exec", "loop", "streaming"}
    /\ \A i \in 1..Len(ToolEntriesOfBatch) : ~ToolEntriesOfBatch[i].content.none
    /\ pc \in {"loop", "streaming"} =>
           /\ Len(ToolEntriesOfBatch) = Len(formatted_tool_calls)
           /\ \A i \in 1..Len(formatted_tool_calls) :
                  ToolEntriesOfBatch[i].tool_call_id = formatted_tool_calls[i].id
    /\ (FirstCallDone /\ FirstCallFails) => IsErrorText(ResultText(1))

----------------------------------------------------------------------------
(* Properties of the loop on tool-call arguments (Spec) *)

\* The arguments text of a call does not decode to an object
BadArguments(call) ==
    LET loaded == json_loads(call.function.arguments) IN
        loaded.raised # "" \/ ~loaded.value.isdict

\* C18: whatever the arguments text of a tool call in a batch (malformed
\* JSON, JSON that is not an object), the loop does not raise: a run that
\* has such a call in its batch is ended by nothing but an endpoint failure.
C18_BadArgumentsDoNotRaise ==
    (/\ pc = "crashed"
     /\ \E k \in 1..Len(formatted_tool_calls) : BadArguments(formatted_tool_calls[k]))
    => EndpointFailed

----------------------------------------------------------------------------
(* ScenarioSpec: a session whose endpoint answers with a read of a.txt,    *)
(* with an edit of a.txt that replaces "a", or with a final text           *)

ScenarioStreams ==
    { << ToolChunk(<< Delta(0, "c1", READ_FILE, ArgsReadA) >>) >>,
      << ToolChunk(<< Delta(0, "c2", EDIT_FILE, ArgsEditReal) >>) >>,
      << ContentChunk(TextOk) >> }

ScenarioInit ==
    /\ conversation_history = InitialHistory
    /\ history_before = InitialHistory
    /\ files = InitialFiles
    /\ files_before = InitialFiles
    /\ pc = "idle"
    /\ max_iterations \in 1..MaxCap
    /\ supports_reasoning = TRUE
    /\ ManagerAtStart
    /\ iteration = 0
    /\ consecutive_trivial_iterations = 0
    /\ reasoning_content = << >>
    /\ final_content = << >>
    /\ tool_calls = << >>
    /\ formatted_tool_calls = << >>
    /\ exec_index = 0
    /\ outcome = NoOutcome
    /\ console = {}
    /\ clock = 0
    /\ stream = << >>
    /\ run_log = << >>
    /\ turns = 0
    /\ edit_args = NoEdit

ScenarioNext ==
    \/ \E user_message \in UserMessages : UserMessage(user_message)
    \/ \E path \in Paths : AddCommand(path)
    \/ LoopHead
    \/ \E chunks \in ScenarioStreams : StreamResponse(chunks)
    \/ Decide
    \/ ExecTool

ScenarioSpec == ScenarioInit /\ [][ScenarioNext]_vars

\* The run answered its requests with the read, then the edit, then text
ReadEditTextRun ==
    /\ RunReturned
    /\ turns = 1
    /\ Verdicts = << Event("assistant", "nontrivial"), Event("assistant", "nontrivial"),
                     Event("assistant", "text") >>
    /\ ExecEvents = << Event("exec", "c1"), Event("exec", "c2") >>

\* C19: in a run whose responses are read_file of a file, then edit_file of
\* that file with a snippet that occurs once in it, then plain text, the
\* loop issues exactly 3 requests, the edit is applied (the file ends with
\* the snippet replaced and the edit's tool entry is a success
\* confirmation), and the outcome is success.
C19_ReadEditAnswerRun ==
    ReadEditTextRun =>
        /\ CountIn(run_log, "request") = 3
        /\ outcome = [success |-> TRUE]
        /\ files[TargetKey] = << "b", "b" >>
        /\ \E n \in 1..Len(conversation_history) :
               /\ conversation_history[n].role = "tool"
               /\ conversation_history[n].tool_call_id = "c2"
               /\ IsEditSuccessText(conversation_history[n].content.s)

----------------------------------------------------------------------------
(* JudgeSpec: the body of _is_trivial_iteration for one edit_file call, on  *)
(* every small pair of snippets and on pairs that spell a keyword          *)

\* longest snippet drawn for the judgement of one edit
MaxJudgeLen == 2

\* letters in both cases and the three kinds of whitespace
JudgeChars == {"a", "A", "b", " ", "\n"}

\* snippets that spell (part of) a formatting keyword
KeywordSnippets ==
    { << "p", "e", "p", " ", "8" >>,
      << "A", "d", "d", " ", "B", "l", "a", "n", "k" >>,
      << "p", "e", "p" >>,
      << "8" >> }

JudgeSnippets == SeqsUpTo(JudgeChars, MaxJudgeLen) \cup KeywordSnippets

\* The calls of the batches that are judged: three tools, with arguments
\* that are an edit changing text, an edit changing whitespace only, a
\* text that is not JSON, a JSON list, and a read's arguments
JudgeCalls ==
    [name : {READ_FILE, CREATE_FILE, EDIT_FILE},
     arguments : {ArgsEditReal, ArgsEditSpace, ArgsBroken, ArgsArray, ArgsReadA}]

\* every batch of at most MaxBatch calls, the empty one included
JudgeBatches ==
    { [k \in 1..Len(b) |-> ToolCall("c" \o ToString(k), b[k].name, b[k].arguments)] :
          b \in SeqsUpTo(JudgeCalls, MaxBatch) }

\* Either one pair of snippets or one batch is put under judgement
JudgeInit ==
    /\ conversation_history = InitialHistory
    /\ history_before = InitialHistory
    /\ files = InitialFiles
    /\ files_before = InitialFiles
    /\ \/ /\ edit_args \in [file_path : {"a.txt"},
                            original_snippet : JudgeSnippets,
                            new_snippet : JudgeSnippets]
          /\ formatted_tool_calls = << >>
          /\ pc = "judge"
       \/ /\ edit_args = NoEdit
          /\ formatted_tool_calls \in JudgeBatches
          /\ pc = "judge_batch"
    /\ max_iterations = 1
    /\ supports_reasoning = FALSE
    /\ ManagerAtStart
    /\ iteration = 1
    /\ consecutive_trivial_iterations = 0
    /\ reasoning_content = << >>
    /\ final_content = << >>
    /\ tool_calls = << >>
    /\ exec_index = 0
    /\ outcome = NoOutcome
    /\ console = {}
    /\ clock = 0
    /\ stream = << >>
    /\ run_log = << >>
    /\ turns = 0

\* lines 283-301 for one edit_file call whose arguments decoded to edit_args
JudgeEdit ==
    /\ pc = "judge"
    /\ pc' = "judged"
    /\ run_log' = Append(run_log,
                         Event("assistant",
                               IF EditCallIsTrivial(edit_args)
                               THEN "trivial" ELSE "nontrivial"))
    /\ UNCHANGED << conversation_history, files, max_iterations, iteration,
                    consecutive_trivial_iterations, reasoning_content,
                    final_content, tool_calls, formatted_tool_calls, exec_index,
                    outcome, console, supports_reasoning, mcpVars, clock, stream, turns,
                    editVars >>

\* One call of _is_trivial_iteration(tool_calls)
JudgeBatch ==
    /\ pc = "judge_batch"
    /\ pc' = "batch_judged"
    /\ LET trivial == IsTrivialIteration(formatted_tool_calls) IN
          run_log' = Append(run_log,
                            IF trivial.raised # "" THEN Event("raise", trivial.raised)
                            ELSE Event("assistant",
                                       IF trivial.value THEN "trivial" ELSE "nontrivial"))
    /\ UNCHANGED << conversation_history, files, max_iterations, iteration,
                    consecutive_trivial_iterations, reasoning_content,
                    final_content, tool_calls, formatted_tool_calls, exec_index,
                    outcome, console, supports_reasoning, mcpVars, clock, stream, turns,
                    editVars >>

JudgeNext == JudgeEdit \/ JudgeBatch

JudgeSpec == JudgeInit /\ [][JudgeNext]_vars

\* (a) of the documented rule: the snippets are identical once all whitespace
\* is removed from each
SameWithoutWhitespace ==
    PyRemoveWhitespace(edit_args.original_snippet)
        = PyRemoveWhitespace(edit_args.new_snippet)

\* (b) of the documented rule: the lowercased text of original plus new
\* holds a keyword
KeywordInBoth ==
    \E keyword \in trivial_keywords :
        PyContains(PyLower(edit_args.original_snippet \o edit_args.new_snippet), keyword)

\* C21: for every pair of snippets (empty, whitespace-only and case-differing
\* ones included) the edit call is judged trivial if and only if the
\* snippets are identical after all whitespace is removed from each, or the
\* lowercased text of original plus new holds a formatting keyword.
C21_TrivialIffSameWithoutWhitespaceOrKeyword ==
    pc = "judged" =>
        ((run_log = << Event("assistant", "trivial") >>)
            <=> (SameWithoutWhitespace \/ KeywordInBoth))

\* The call is an edit_file call that is trivial on its own
IndividuallyTrivial(call) ==
    /\ call.function.name = EDIT_FILE
    /\ LET loaded == json_loads(call.function.arguments) IN
          /\ loaded.raised = ""
          /\ loaded.value.isdict
          /\ EditCallIsTrivial(loaded.value.d)

\* C22: a batch is judged trivial if and only if at least one edit_file call
\* in it is trivial on its own: calls to other tools never count, the empty
\* batch is not trivial, and an edit_file call whose arguments are not
\* decodable JSON is skipped.
C22_BatchTrivialIffSomeEditTrivial ==
    pc = "batch_judged" =>
        ((run_log = << Event("assistant", "trivial") >>)
            <=> \E k \in 1..Len(formatted_tool_calls) :
                    IndividuallyTrivial(formatted_tool_calls[k]))

----------------------------------------------------------------------------
(* Properties of the consecutive-trivial count (Spec) *)

\* The judgements of the batches of the current run, in order
BatchVerdicts ==
    SelectSeq(run_log, LAMBDA e : e.ev = "assistant" /\ e.id \in {"trivial", "nontrivial"})

Trivial == Event("assistant", "trivial")

RECURSIVE TrailingTrivial(_)
\* how many judgements at the end of v are "trivial"
TrailingTrivial(v) ==
    IF v = << >> \/ v[Len(v)] # Trivial THEN 0
    ELSE 1 + TrailingTrivial(SubSeq(v, 1, Len(v) - 1))

\* batches k-2, k-1 and k of the run were judged trivial
TrivialBatchesAt(k) == \A j \in (k - 2)..k : BatchVerdicts[j] = Trivial

StoppedForTrivialEdits == "trivial_stop" \in console

\* C23: within one run the loop stops for the trivial-edit reason at an
\* iteration if and only if that iteration's batch and the two batches before
\* it were all judged trivial; the count is zero at the start of every run
\* and after a non-trivial batch, and a trivial batch that leaves it below 3
\* is executed like any other.
C23_TrivialStopIffThreeInARow ==
    (Running \/ RunReturned) =>
        LET n == Len(BatchVerdicts) IN
        /\ consecutive_trivial_iterations = TrailingTrivial(BatchVerdicts)
        /\ StoppedForTrivialEdits <=> (n >= 3 /\ TrivialBatchesAt(n))
        /\ StoppedForTrivialEdits =>
              /\ RunReturned
              /\ run_log[Len(run_log) - 1] = Trivial
        /\ \A k \in 3..n : TrivialBatchesAt(k) => k = n
        /\ CountIn(run_log, "batch") =
              IF pc = "exec" \/ StoppedForTrivialEdits THEN n - 1 ELSE n

\* C23 witness: with cap 4 a run whose first batch was not trivial has
\* stopped at its fourth batch, the third trivial one in a row, after
\* executing the first three
C23_Witness ==
    /\ RunReturned
    /\ StoppedForTrivialEdits
    /\ BatchVerdicts = << Event("assistant", "nontrivial"), Trivial, Trivial, Trivial >>
    /\ CountIn(run_log, "batch") = 3

----------------------------------------------------------------------------
(* Properties of the step after a completed response (Spec) *)

\* fragments arrived (or none did) and no accumulated call has a name
NoNamedCall == \A k \in 1..Len(tool_calls) : tool_calls[k].function.name = << >>

\* the step appends exactly one entry, an assistant entry
AppendsOneAssistantEntry ==
    /\ Len(conversation_history') = Len(conversation_history) + 1
    /\ SubSeq(conversation_history', 1, Len(conversation_history)) = conversation_history
    /\ conversation_history'[Len(conversation_history')].role = "assistant"

\* C24: for every response whose stream completes, the loop appends exactly
\* one assistant entry before it executes tools, terminates or issues another
\* request; when no accumulated call has a name, that entry is the
\* text-or-placeholder entry and the run terminates with success instead of
\* issuing another request.
C24_EveryResponseAppendsOneAssistantEntry ==
    [][pc = "decide" =>
          /\ AppendsOneAssistantEntry
          /\ NoNamedCall =>
                /\ conversation_history'[Len(conversation_history')]
                       = AssistantWithoutTools(final_content)
                /\ pc' = "idle"
                /\ outcome' = [success |-> TRUE]]_vars

----------------------------------------------------------------------------
(* Properties of the report at the end of a run (Spec) *)

MaxIterationsReported == "max_iterations" \in console

\* the run ended at the while test, the cap exhausted after a response that
\* was not a final text answer
EndedAtTheCap ==
    /\ CountIn(run_log, "request") = max_iterations
    /\ run_log[Len(run_log) - 1].ev \in {"batch", "nothing"}

\* C25: the "max iterations reached, task may be incomplete" status is
\* reported exactly for the runs that end because the cap was exhausted while
\* the last response still requested tools; a run that ends with a final
\* text answer, even on the last permitted iteration, or with the
\* trivial-edit stop is not reported so.
C25_MaxIterationsReportedOnlyAtTheCap ==
    RunReturned => (MaxIterationsReported <=> EndedAtTheCap)

----------------------------------------------------------------------------
(* Properties of the reassembled ids (StreamSpec) *)

RECURSIVE IdPartsAt(_, _)
\* The id parts of the fragments of index i, concatenated in arrival order
IdPartsAt(fragments, i) ==
    IF fragments = << >> THEN ""
    ELSE (IF Head(fragments).index = i THEN Head(fragments).id ELSE "")
             \o IdPartsAt(Tail(fragments), i)

\* C26: when several fragments of one index carry an id part, the id of the
\* tool call is the concatenation of those parts in arrival order; a later
\* part is appended to an earlier one and never replaces it.
C26_IdIsConcatenationOfItsParts ==
    \A i \in FragmentIndices :
        i < Len(tool_calls) => tool_calls[i + 1].id = IdPartsAt(Fragments(stream), i)

----------------------------------------------------------------------------
(* Properties of the ids of tool calls (StreamSpec) *)

\* The assistant entries of the transcript that declare tool calls
CallEntries ==
    SelectSeq(conversation_history,
              LAMBDA msg : msg.role = "assistant" /\ msg.tool_calls # << >>)

\* The tool entries of the transcript, in order
ToolEntries == SelectSeq(conversation_history, LAMBDA msg : msg.role = "tool")

\* Some fragment of index i carried the id
StreamedAt(id, i) ==
    \E k \in 1..Len(Fragments(stream)) :
        Fragments(stream)[k].index = i /\ Fragments(stream)[k].id = id

\* C27: every tool call recorded in an assistant entry has a non-empty id,
\* which is the endpoint's id when one was streamed for the call and otherwise
\* an id synthesized from the call's index and the current time in
\* milliseconds; the tool entry appended for a call carries exactly the id
\* recorded for that call in the assistant entry.
C27_RecordedIdsAreStreamedOrSynthesized ==
    pc \in {"exec", "loop", "idle", "crashed"} =>
        /\ \A n \in 1..Len(CallEntries) :
              /\ Len(CallEntries[n].tool_calls) = Cardinality(NamedSlots)
              /\ \A k \in 1..Len(CallEntries[n].tool_calls) :
                    LET id == CallEntries[n].tool_calls[k].id
                        i  == KthNamedSlot(k) - 1
                    IN  /\ id # ""
                        /\ IF IdPartsAt(Fragments(stream), i) # ""
                           THEN StreamedAt(id, i)
                           ELSE id = "call_" \o ToString(i) \o "_" \o ToString(clock)
              /\ Len(ToolEntries) <= Len(CallEntries[n].tool_calls)
              /\ \A k \in 1..Len(ToolEntries) :
                    ToolEntries[k].tool_call_id = CallEntries[n].tool_calls[k].id
        /\ CallEntries = << >> => ToolEntries = << >>

\* C27 witness: the call of index 0 was streamed without an id and the call of
\* index 1 with the id "c1"; both are recorded, the first under a synthesized
\* id, and both have been answered by a tool entry with the recorded id
C27_Witness ==
    /\ pc = "loop"
    /\ Len(CallEntries) = 1
    /\ Len(CallEntries[1].tool_calls) = 2
    /\ tool_calls[1].id = ""
    /\ CallEntries[1].tool_calls[1].id = "call_0_1"
    /\ CallEntries[1].tool_calls[2].id = "c1"
    /\ Len(ToolEntries) = 2
    /\ ToolEntries[1].tool_call_id = "call_0_1"
    /\ ToolEntries[2].tool_call_id = "c1"

----------------------------------------------------------------------------
(* Properties of the reasoning text (StreamSpec) *)

\* The same response without its reasoning text
WithoutReasoning(chunks) ==
    [k \in 1..Len(chunks) |-> [chunks[k] EXCEPT !.reasoning_content = << >>]]

\* What the loop accumulates from the response without its reasoning text
AccumulatedWithoutReasoning ==
    Reassemble(EmptyAccumulators, WithoutReasoning(stream), supports_reasoning)

\* C28: two responses that differ only in their reasoning text lead to the
\* same appended assistant entry, the same tool executions and the same
\* continue-or-stop decision: the content text and the tool calls accumulated
\* from a response, the calls kept and the decision taken are those of the
\* response without its reasoning text, and no entry of the transcript holds
\* reasoning text.
C28_ReasoningHasNoEffectOnTheRun ==
    LET w == AccumulatedWithoutReasoning IN
        /\ final_content = w.final_content
        /\ tool_calls = w.tool_calls
        /\ pc \in {"exec", "loop", "idle", "crashed"} =>
              /\ formatted_tool_calls = FormatToolCalls(w.tool_calls, clock)
              /\ (w.tool_calls = << >>) <=>
                     (\E k \in 1..Len(run_log) : run_log[k] = Event("assistant", "text"))
        /\ \A n \in 1..Len(conversation_history) :
              ~conversation_history[n].content.none =>
                  ~PyContains(conversation_history[n].content.s, << "h", "m" >>)

----------------------------------------------------------------------------
(* BrokenStreamSpec: one request of the loop whose response, streamed      *)
(* chunk by chunk, may break after any chunk                               *)

BrokenStreamNext ==
    \/ \E chunk \in StreamChunks : StreamChunk(chunk)
    \/ StreamFails
    \/ StreamEnd
    \/ Decide
    \/ ExecTool
    \/ LoopHead

BrokenStreamSpec == StreamInit /\ [][BrokenStreamNext]_vars

\* The transcript when the request was issued
HistoryAtRequest ==
    Append(InitialHistory, Message("user", Str(<< "f", "i", "x" >>), << >>, ""))

StreamBroke ==
    /\ pc = "crashed"
    /\ run_log[Len(run_log)] = Event("raise", "APIError")

\* C29: if a streamed response fails before the stream ends, nothing derived
\* from it is appended or executed: the transcript is exactly what it was
\* when the request was issued and no tool call of the partial response is
\* run.
C29_BrokenStreamLeavesTranscriptAlone ==
    StreamBroke =>
        /\ conversation_history = HistoryAtRequest
        /\ ExecEvents = << >>
        /\ files = InitialFiles
        /\ formatted_tool_calls = << >>

\* C29 witness: the stream broke after text and a complete read_file call
\* had been accumulated
C29_Witness ==
    /\ StreamBroke
    /\ Len(stream) = 2
    /\ final_content = TextOk
    /\ Len(tool_calls) = 2
    /\ tool_calls[1] = ToolCall("c1", READ_FILE, ArgsReadA)

----------------------------------------------------------------------------
(* LintSpec: batches of calls on the Python file a.py, whose linter may    *)
(* find nothing, find issues, be missing or time out                       *)

LintCalls ==
    { [name |-> READ_FILE, arguments |-> ArgsReadPy],
      [name |-> CREATE_FILE, arguments |-> ArgsCreatePy],
      [name |-> EDIT_FILE, arguments |-> ArgsEditPy] }

LintBatches ==
    { [k \in 1..Len(b) |-> ToolCall("c" \o ToString(k), b[k].name, b[k].arguments)] :
          b \in UNION { [1..n -> LintCalls] : n \in 1..MaxBatch } }

\* a.py is missing or holds "ab"
LintFileSystems ==
    { [k \in {} |-> << >>],
      [k \in {normalize_path("a.py")} |-> << "a", "b" >>] }

\* The transcript before the batch: a fresh session, and one in which a.py
\* was added with /add
LintPrefixes ==
    { InitialHistory \o << UserEntry >>,
      InitialHistory
          \o << Message("system",
                        Str(FileMarker(normalize_path("a.py")) \o << ":\n\n", "a", "b" >>),
                        << >>, ""),
                UserEntry >> }

LintInit ==
    /\ formatted_tool_calls \in LintBatches
    /\ tool_calls = formatted_tool_calls
    /\ \E prefix \in LintPrefixes :
          conversation_history =
              Append(prefix, AssistantWithTools(<< >>, formatted_tool_calls))
    /\ history_before = conversation_history
    /\ files \in LintFileSystems
    /\ files_before = files
    /\ pc = "exec"
    /\ exec_index = 1
    /\ max_iterations = 2
    /\ iteration = 1
    /\ consecutive_trivial_iterations = 0
    /\ supports_reasoning = TRUE
    /\ ManagerAtStart
    /\ reasoning_content = << >>
    /\ final_content = << >>
    /\ outcome = NoOutcome
    /\ console = {}
    /\ clock = 1
    /\ stream = << >>
    /\ run_log = << Event("request", ""), Event("response", ""),
                    Event("assistant", "nontrivial") >>
    /\ turns = 1
    /\ edit_args = NoEdit

LintNext ==
    \/ ExecTool
    \/ LoopHead

LintSpec == LintInit /\ [][LintNext]_vars

PyKey == normalize_path("a.py")

\* The file operation of the first call has succeeded, and the text that
\* reports it
FirstCallSucceeded ==
    CASE FirstCall.name = READ_FILE   -> PyKey \in DOMAIN files_before
      [] FirstCall.name = CREATE_FILE -> PyKey \in DOMAIN files
      [] FirstCall.name = EDIT_FILE   ->
             /\ PyKey \in DOMAIN files_before
             /\ files_before[PyKey] = << "a", "b" >>
             /\ files[PyKey] = << "b", "b" >>
      [] OTHER -> FALSE

SuccessText ==
    CASE FirstCall.name = READ_FILE   ->
             FileMarker(PyKey) \o << ":\n\n" >> \o files_before[PyKey]
      [] FirstCall.name = CREATE_FILE -> << "Successfully created file '", "a.py", "'" >>
      [] FirstCall.name = EDIT_FILE   -> << "Successfully edited file '", "a.py", "'" >>
      [] OTHER -> << >>

\* C30: when create_file, edit_file or read_file has succeeded in its file
\* operation and the lint run that follows fails (linter missing, time-out,
\* any exception in the linter call), the tool result is still the success
\* result, possibly with diagnostic text appended, and never an error
\* result.
C30_LintFailureKeepsSuccessResult ==
    (FirstCallDone /\ FirstCallSucceeded) =>
        /\ StartsWithAt(ResultText(1), SuccessText, 1)
        /\ ~IsErrorText(ResultText(1))

\* C30 witness: the edit of a.py was applied, the linter timed out, and the
\* result is the success text followed by the linter's failure as diagnostics
C30_Witness ==
    /\ FirstCallDone
    /\ FirstCall.name = EDIT_FILE
    /\ FirstCallSucceeded
    /\ StartsWithAt(ResultText(1), SuccessText, 1)
    /\ PyContains(ResultText(1), << "[Linter Error] Could not check file ", "a.py",
                                   ": ", "TimeoutExpired" >>)

----------------------------------------------------------------------------
(* Properties of the transcript as a whole (Spec) *)

\* s is t or t cut short
IsPrefix(s, t) == Len(s) <= Len(t) /\ SubSeq(t, 1, Len(s)) = s

----------------------------------------------------------------------------
(* LongRunSpec: one user turn, and the run it starts, on transcripts long  *)
(* enough to be compacted                                                  *)

LongRunHistories ==
    { InitialHistory \o BlocksFrom(kinds, 1) :
          kinds \in [1..MaxBlocks -> {"two", "run", "add", "dir"}] }

LongRunInit ==
    /\ conversation_history \in LongRunHistories
    /\ history_before = conversation_history
    /\ files = InitialFiles
    /\ files_before = InitialFiles
    /\ pc = "idle"
    /\ max_iterations = 2
    /\ supports_reasoning = TRUE
    /\ ManagerAtStart
    /\ iteration = 0
    /\ consecutive_trivial_iterations = 0
    /\ reasoning_content = << >>
    /\ final_content = << >>
    /\ tool_calls = << >>
    /\ formatted_tool_calls = << >>
    /\ exec_index = 0
    /\ outcome = NoOutcome
    /\ console = {}
    /\ clock = 0
    /\ stream = << >>
    /\ run_log = << >>
    /\ turns = MaxTurns - 1
    /\ edit_args = NoEdit

LongRunNext ==
    \/ \E user_message \in UserMessages : UserMessage(user_message)
    \/ LoopHead
    \/ \E chunks \in ScenarioStreams : StreamResponse(chunks)
    \/ Decide
    \/ ExecTool

LongRunSpec == LongRunInit /\ [][LongRunNext]_vars

\* C32: each user turn appends exactly one user entry and compacts exactly
\* once, before the first request of the turn; right after that step the new
\* user entry is the last entry of the transcript, and no compaction happens
\* between the iterations of the run.
C32_OneAppendAndOneCompactionPerTurn ==
    [][IF turns' = turns + 1
       THEN \E user_message \in UserMessages :
                LET entry == Message("user", Str(user_message), << >>, "")
                    after == AfterTrim(conversation_history', pc')
                IN  /\ IsTrimOf(Append(conversation_history, entry), after)
                    /\ after[Len(after)] = entry
                    /\ iteration' = 0 \/ pc' = "idle"
       ELSE /\ turns' = turns
            /\ IsPrefix(conversation_history, conversation_history')]_vars

\* C32 witness: the turn compacted a transcript of more than 20 entries, and
\* after two iterations of its run the transcript has more than 20 entries
\* again
C32_Witness ==
    /\ Len(history_before) >= 20
    /\ pc = "loop"
    /\ iteration = 2
    /\ CountIn(run_log, "batch") = 2
    /\ Len(conversation_history) > 20

----------------------------------------------------------------------------
(* Routing of a user message (api_client.py, lines 203-215) *)

\* C33: for every user message, whatever words it contains, processing the
\* message runs the recursive loop: the step that takes the message starts
\* the loop, and the processing ends only after at least one model request.
C33_EveryMessageRunsTheLoop ==
    [][/\ turns' = turns + 1 => pc' = "loop"
       /\ (turns' > 0 /\ pc' = "idle" /\ (turns' # turns \/ pc # "idle"))
              => CountIn(run_log', "request") >= 1]_vars

----------------------------------------------------------------------------
(* ReadManySpec: batches of read_multiple_files calls, on every state of   *)
(* the two text files                                                      *)

ReadManyCalls ==
    { [name |-> READ_MULTIPLE_FILES, arguments |-> a] :
          a \in {ArgsReadNone, ArgsReadListA, ArgsReadListAB, ArgsReadListBA, ArgsEmptyObj} }

ReadManyBatches ==
    { [k \in 1..Len(b) |-> ToolCall("c" \o ToString(k), b[k].name, b[k].arguments)] :
          b \in UNION { [1..n -> ReadManyCalls] : n \in 1..MaxBatch } }

\* What a file of the working directory can be: missing, a text, or a file
\* that is not UTF-8 text
FileContents(text) == { << >>, text, << Undecodable >> }

\* a.txt and b.txt, each in one of its states (<< >> stands for a missing file)
ReadManyFileSystems ==
    { [k \in { normalize_path(p) : p \in {"a.txt", "b.txt"} } \
                 ( (IF a = << >> THEN {normalize_path("a.txt")} ELSE {})
                   \cup (IF b = << >> THEN {normalize_path("b.txt")} ELSE {}) )
          |-> IF k = normalize_path("a.txt") THEN a ELSE b] :
          a \in FileContents(<< "a", "b" >>), b \in FileContents(<< "b" >>) }

ReadManyInit ==
    /\ formatted_tool_calls \in ReadManyBatches
    /\ tool_calls = formatted_tool_calls
    /\ \E prefix \in ExecPrefixes :
          conversation_history =
              Append(prefix, AssistantWithTools(<< >>, formatted_tool_calls))
    /\ history_before = conversation_history
    /\ files \in ReadManyFileSystems
    /\ files_before = files
    /\ pc = "exec"
    /\ exec_index = 1
    /\ max_iterations = 2
    /\ iteration = 1
    /\ consecutive_trivial_iterations = 0
    /\ supports_reasoning = TRUE
    /\ ManagerAtStart
    /\ reasoning_content = << >>
    /\ final_content = << >>
    /\ outcome = NoOutcome
    /\ console = {}
    /\ clock = 1
    /\ stream = << >>
    /\ run_log = << Event("request", ""), Event("response", ""),
                    Event("assistant", "nontrivial") >>
    /\ turns = 1
    /\ edit_args = NoEdit

ReadManyNext ==
    \/ ExecTool
    \/ LoopHead

ReadManySpec == ReadManyInit /\ [][ReadManyNext]_vars

\* The paths listed by the k-th call of the batch (<< >> when it lists none)
ListedPaths(k) ==
    LET loaded == json_loads(formatted_tool_calls[k].function.arguments) IN
        IF loaded.raised = "" /\ loaded.value.isdict /\ "file_paths" \in DOMAIN loaded.value.d
        THEN loaded.value.d.file_paths
        ELSE << >>

\* The file can be read as text
Readable(path) ==
    /\ normalize_path(path) \in DOMAIN files_before
    /\ \A i \in 1..Len(files_before[normalize_path(path)]) :
          files_before[normalize_path(path)][i] # Undecodable

\* What the result may hold for one path: the content of a readable file, an
\* error for the path of an unreadable one
PartsOf(path) ==
    IF Readable(path)
    THEN { << "Content of file '", normalize_path(path), "'", ":\n\n" >>
               \o files_before[normalize_path(path)] }
    ELSE { << "Error reading '", path, "': ", e >> :
               e \in {"FileNotFoundError", "UnicodeDecodeError"} }

\* The k-th call has been executed
CallDone(k) == k < exec_index /\ k <= Len(ToolEntriesOfBatch)

\* C34: read_multiple_files on a list of paths of which some cannot be read
\* returns one result that holds, for each path in input order, either that
\* file's content or an error for that path; an unreadable file does not
\* prevent the content of the other files from being returned.
C34_EveryListedPathHasItsPart ==
    \A k \in 1..Len(formatted_tool_calls) :
        (CallDone(k) /\ ListedPaths(k) # << >>) =>
            \E parts \in [1..Len(ListedPaths(k)) ->
                              UNION { PartsOf(ListedPaths(k)[n]) :
                                          n \in 1..Len(ListedPaths(k)) }] :
                /\ \A n \in 1..Len(parts) : parts[n] \in PartsOf(ListedPaths(k)[n])
                /\ ResultText(k) = << "\n\n", Rule >> \o JoinResults(parts)

----------------------------------------------------------------------------
(* Compaction applied twice (LongRunSpec) *)

SystemEntries(history) == SelectSeq(history, LAMBDA msg : msg.role = "system")

\* C35: compaction is idempotent: applying trim twice in a row to a
\* transcript gives the same transcript as applying it once; and a trim
\* never removes a system entry.
C35_TrimIsIdempotentAndKeepsSystemEntries ==
    LET once  == trim_conversation_history(conversation_history)
        twice == trim_conversation_history(once)
    IN  /\ twice = once
        /\ SystemEntries(once) = SystemEntries(conversation_history)

\* C35 witness: the user message compacted a transcript that had more than
\* 15 non-system entries, and what the compaction left is longer than 20
\* entries itself, so a second trim goes through the compaction again
C35_Witness ==
    /\ pc = "loop"
    /\ iteration = 0
    /\ Len(history_before) > 20
    /\ Len(conversation_history) < Len(history_before) + 1
    /\ Len(conversation_history) > 20
    /\ Len(SystemEntries(conversation_history)) >= 7

----------------------------------------------------------------------------
(* McpSpec: PydanticMCPManager (pydantic_mcp_integration.py): queries on   *)
(* the main thread, reload_config on the thread of the config watcher.     *)
(* A step is one access to a field of the manager; the steps of the two    *)
(* threads interleave freely, except where the lock orders them.           *)

\* queries in one behaviour
MaxQueries == 2
\* modifications of the config file in one behaviour
MaxReloads == 2

\* What mcp.config.json can hold after a modification
Configs ==
    { Config(TRUE, << >>),
      Config(TRUE, << "context7" >>),
      Config(TRUE, << "context7", "ccxt" >>),
      Config(FALSE, << >>) }

\* The variables of the session, which the manager's steps leave alone
sessionVars ==
    << conversation_history, files, pc, max_iterations, iteration,
       consecutive_trivial_iterations, reasoning_content, final_content,
       tool_calls, formatted_tool_calls, exec_index, outcome, console,
       supports_reasoning, clock, stream, run_log, turns, edit_args,
       files_before, history_before >>

At(thread, where) == thread_pc[thread] = where
Goto(thread, where) == thread_pc' = [thread_pc EXCEPT ![thread] = where]

\* query_sync(message) is called on the main thread
QueryStart ==
    /\ At("main", "idle")
    /\ mcp_count.queries < MaxQueries
    /\ mcp_count' = [mcp_count EXCEPT !.queries = @ + 1]
    /\ Goto("main", "check")
    /\ UNCHANGED << agent, _initialized, mcp_servers, server_names, _lock, config,
                    sessionVars >>

\* line 370: `if not self.agent`
QueryCheck ==
    /\ At("main", "check")
    /\ Goto("main", IF agent = "None" THEN "initialize" ELSE "session")
    /\ UNCHANGED << agent, _initialized, mcp_servers, server_names, _lock, config,
                    mcp_count, sessionVars >>

\* lines 298-300: initialize() takes the lock; an initialized manager
\* returns True at once
InitializeAcquire ==
    /\ At("main", "initialize")
    /\ _lock = ""
    /\ IF _initialized
       THEN /\ Goto("main", "session")
            /\ UNCHANGED _lock
       ELSE /\ Goto("main", "building")
            /\ _lock' = "main"
    /\ UNCHANGED << agent, _initialized, mcp_servers, server_names, config,
                    mcp_count, sessionVars >>

\* _load_mcp_servers: the enabled servers of the file; none if it is not JSON
LoadedServers == IF config.valid THEN config.enabled ELSE << >>

\* lines 302-366: the agent is built under the lock, or building it raises
\* (no API key, the provider or the agent cannot be created) and
\* initialize() returns False: query returns its error text
InitializeBuild ==
    /\ At("main", "building")
    /\ _lock = "main"
    /\ \E failure \in {"", "api_config", "agent"} :
          /\ IF failure = "api_config"
             THEN UNCHANGED << mcp_servers, server_names >>
             ELSE /\ mcp_servers' = LoadedServers
                  /\ server_names' = LoadedServers
          /\ IF failure = ""
             THEN /\ agent' = "Agent"
                  /\ _initialized' = TRUE
                  /\ Goto("main", "session")
             ELSE /\ UNCHANGED << agent, _initialized >>
                  /\ Goto("main", "failed")
    /\ _lock' = ""
    /\ UNCHANGED << config, mcp_count, sessionVars >>

\* lines 376-388: the session start is logged when there are servers
QuerySession ==
    /\ At("main", "session")
    /\ Goto("main", "enter")
    /\ UNCHANGED << agent, _initialized, mcp_servers, server_names, _lock, config,
                    mcp_count, sessionVars >>

\* line 391: `async with self.agent.run_mcp_servers()`; on None the
\* attribute access raises and the handler of lines 403-407 returns the
\* error text
QueryEnter ==
    /\ At("main", "enter")
    /\ Goto("main", IF agent = "None" THEN "failed" ELSE "run")
    /\ UNCHANGED << agent, _initialized, mcp_servers, server_names, _lock, config,
                    mcp_count, sessionVars >>

\* line 392: `await self.agent.run(enhanced_message)`
QueryRun ==
    /\ At("main", "run")
    /\ Goto("main", IF agent = "None" THEN "failed" ELSE "answered")
    /\ UNCHANGED << agent, _initialized, mcp_servers, server_names, _lock, config,
                    mcp_count, sessionVars >>

\* query returns: the answer, or an error text
QueryReturn ==
    /\ thread_pc["main"] \in {"answered", "failed"}
    /\ Goto("main", "idle")
    /\ UNCHANGED << agent, _initialized, mcp_servers, server_names, _lock, config,
                    mcp_count, sessionVars >>

\* ConfigFileHandler.on_modified (lines 498-521): the file was written and
\* the handler calls reload_config on the watcher's thread
FileModified ==
    /\ At("watcher", "idle")
    /\ mcp_count.reloads < MaxReloads
    /\ mcp_count' = [mcp_count EXCEPT !.reloads = @ + 1]
    /\ config' \in Configs
    /\ Goto("watcher", "reload")
    /\ UNCHANGED << agent, _initialized, mcp_servers, server_names, _lock,
                    sessionVars >>

\* line 450: `with self._lock`
ReloadAcquire ==
    /\ At("watcher", "reload")
    /\ _lock = ""
    /\ _lock' = "watcher"
    /\ Goto("watcher", "load")
    /\ UNCHANGED << agent, _initialized, mcp_servers, server_names, config,
                    mcp_count, sessionVars >>

\* lines 456-478: the file is read; a file that is not JSON raises, the
\* handler of lines 487-488 prints the error and the lock is released
ReloadLoad ==
    /\ At("watcher", "load")
    /\ IF config.valid
       THEN /\ server_names' = config.enabled
            /\ Goto("watcher", "mark")
            /\ UNCHANGED _lock
       ELSE /\ _lock' = ""
            /\ Goto("watcher", "idle")
            /\ UNCHANGED server_names
    /\ UNCHANGED << agent, _initialized, mcp_servers, config, mcp_count, sessionVars >>

\* line 481: `self._initialized = False`
ReloadMark ==
    /\ At("watcher", "mark")
    /\ _initialized' = FALSE
    /\ Goto("watcher", "unset")
    /\ UNCHANGED << agent, mcp_servers, server_names, _lock, config, mcp_count,
                    sessionVars >>

\* line 482: `self.agent = None`
ReloadUnset ==
    /\ At("watcher", "unset")
    /\ agent' = "None"
    /\ Goto("watcher", "clear")
    /\ UNCHANGED << _initialized, mcp_servers, server_names, _lock, config, mcp_count,
                    sessionVars >>

\* line 483: `self.mcp_servers = []`, and the lock is released
ReloadClear ==
    /\ At("watcher", "clear")
    /\ mcp_servers' = << >>
    /\ _lock' = ""
    /\ Goto("watcher", "idle")
    /\ UNCHANGED << agent, _initialized, server_names, config, mcp_count, sessionVars >>

McpNext ==
    \/ QueryStart
    \/ QueryCheck
    \/ InitializeAcquire
    \/ InitializeBuild
    \/ QuerySession
    \/ QueryEnter
    \/ QueryRun
    \/ QueryReturn
    \/ FileModified
    \/ ReloadAcquire
    \/ ReloadLoad
    \/ ReloadMark
    \/ ReloadUnset
    \/ ReloadClear

McpSpec == Init /\ [][McpNext]_vars

\* The main thread takes the step that uses the agent
UsesAgent ==
    /\ thread_pc["main"] \in {"enter", "run"}
    /\ thread_pc'["main"] # thread_pc["main"]

\* C36: for any interleaving of the watcher thread's reload_config with a
\* query running on the main thread, the query never uses an unset agent: at
\* the moment the query runs the agent, the manager's agent is non-null and
\* the manager is marked initialized.
C36_QueryUsesASetAgent ==
    [][UsesAgent => (agent # "None" /\ _initialized)]_vars

=============================================================================
